---- MODULE Spec2Model ----
(***************************************************************************)
(* Model of the production-scheduling HTTP service: the consolidated       *)
(* server (src/server.js) and its earlier variant (src/unnamed/part_000),  *)
(* in front of the relational store.  The committed store is prog / ctrl / *)
(* det for the lots, ingredientes, ptCab / ptDet for the master data.      *)
(* Spec runs the lot routes, SpecIng the health route and the routes of    *)
(* clients and ingredients, SpecPT those of the finished products,         *)
(* SpecKey the key check in front of the lot routes, SpecTx the routes     *)
(* that open a transaction, SpecPool getPool promise by promise.           *)
(* A request occupies a slot of req while its handler is suspended         *)
(* at an await whose order against other requests matters: the await of a  *)
(* pending connect, and the statements of an open weighing transaction.    *)
(* A handler with a single statement runs as one step.  A slot at "done"   *)
(* shows the response just sent; it is released before anything else runs. *)
(***************************************************************************)
EXTENDS Integers, Sequences, FiniteSets, TLC

\* ------------------------------------------------------------- bounds
MaxBatch == 1       \* rows the scheduling procedure may create in ProgramacionProduccion
MaxLineas == 2      \* ingredients of the product's formula = detail lines of a batch
MaxClock == 2       \* values GETDATE() takes
MaxFecha == 1       \* calendar days a batch can be scheduled on
MaxReq == 2         \* requests in flight at once
MaxIng == 2         \* rows of Ingredientes
MaxProductos == 2   \* rows of ProductosTerminados
MaxDetalles == 3    \* rows of ProductosTerminados_Detalle
MaxIntentos == 3    \* calls of sql.connect
MaxLlamadas == 3    \* handlers inside getPool at once

\* ------------------------------------------------------------- values
NULL == -2                  \* SQL NULL / JS null of a numeric or datetime value
ABSENT == -1                \* a numeric body or query field that is not sent (undefined)
UNDEF == "undefined"        \* a string body field that is not sent
SNULL == "NULL"             \* SQL NULL of a character or binary column
PROMISE == 1                \* the value of poolPromise once sql.connect was called
NOKEY == "null"             \* API_KEY when the environment does not set it
KEY == "k1"                 \* API_KEY when the environment sets it

Slots == 1..MaxReq
Fechas == 1..MaxFecha
Rangos == 1..(MaxFecha + 1)         \* days a date range may start or end on
Formula == <<"5", "6", "7", "8">>   \* ingredient of each Secuencia of product PT1
UnidadesActivas == {1}              \* UnidadesDeMedida rows with Activo = 1 (row 2 is inactive)

VARIABLES
    deployed,      \* which server file runs: "server.js" or "part_000"
    configured,    \* sqlConfig has server, database, user and password
    poolPromise,   \* module-level poolPromise: NULL or PROMISE, what sql.connect returned
    connect,       \* state of the promise sql.connect returned last
    now,           \* the store's clock, read by GETDATE()
    prog,          \* ProgramacionProduccion, indexed by Consecutivo
    ctrl,          \* ProgramacionProduccion_Control, indexed by Consecutivo
    det,           \* ProgramacionProduccion_Detalle, by Consecutivo and Secuencia
    req,           \* the requests in flight, one per slot
    apiKey,        \* API_KEY of the environment, NOKEY when it is not set
    ingredientes,  \* Ingredientes, indexed by Identificador
    ptCab,         \* ProductosTerminados, the rows in insertion order
    ptDet,         \* ProductosTerminados_Detalle, the rows in insertion order
    promesas,      \* the promises sql.connect returned, in the order of the calls
    llamadas,      \* the handlers at `const pool = await getPool()`
    micro          \* the microtask queue: the callers whose continuation is queued

vars == <<deployed, configured, poolPromise, connect, now, prog, ctrl, det, req,
          apiKey, ingredientes, ptCab, ptDet, promesas, llamadas, micro>>
lotes == <<prog, ctrl, det>>
catalogo == <<ingredientes, ptCab, ptDet>>
store == <<lotes, catalogo>>
poolVars == <<poolPromise, connect>>
poolFino == <<promesas, llamadas, micro>>

\* ------------------------------------------------------------- records
\* A body whose Ingredientes is not an array; an array is the sequence of its Clave values.
NoArray == <<UNDEF>>

NoIn ==
    [Consecutivo |-> ABSENT, ProductoTerminado |-> UNDEF, Secuencia |-> ABSENT,
     Ingrediente |-> UNDEF, Tara |-> ABSENT, Peso |-> ABSENT, Etiqueta |-> UNDEF,
     FotoBase64 |-> UNDEF, inicio |-> ABSENT, fin |-> ABSENT, consecutivos |-> {},
     CodigoProducto |-> UNDEF, FechaProgramada |-> ABSENT, UsuarioProgramo |-> UNDEF,
     CantidadLotes |-> ABSENT, PesoPorLote |-> ABSENT, UnidadMedidaId |-> ABSENT,
     IdUnidadMedida |-> ABSENT,
     id |-> ABSENT, Nombre |-> UNDEF, CategoriaId |-> ABSENT,
     Activo |-> ABSENT,      \* 1 and 0 stand for true and false
     codigo |-> UNDEF, Codigo |-> UNDEF, Descripcion |-> UNDEF, ClienteId |-> ABSENT,
     NombreCliente |-> UNDEF, Ingredientes |-> NoArray]

LineaNueva(ing) ==
    [ProductoTerminado |-> "PT1", Ingrediente |-> ing, TaraReal |-> NULL, PesoReal |-> NULL,
     TiempoDePesado |-> NULL, EtiquetaLeida |-> SNULL, FotoEscaneo |-> SNULL]

ControlNuevo(fecha) ==
    [FechaProgramada |-> fecha, ProduccionInicio |-> NULL, ProduccionFinal |-> NULL,
     LoteCompletado |-> FALSE]

NoTx ==
    [open |-> FALSE, solo |-> TRUE, det |-> LineaNueva("5"), ctrlSet |-> FALSE,
     ctrl |-> ControlNuevo(1), remaining |-> 0, completed |-> FALSE, next |-> NULL]

\* The sql.Transaction of a ProductosTerminados handler: what its statements wrote and
\* what they hold locked until commit or rollback.
NoPtx ==
    [open |-> FALSE,
     solo |-> TRUE,         \* history: no other transaction on the same code overlapped
     cab |-> <<>>,          \* header rows inserted
     hallados |-> 0,        \* header rows the UPDATE matched
     borrados |-> 0,        \* detail rows the DELETE removed
     det |-> <<>>]          \* detail rows inserted

Resp(status) ==
    [status |-> status, remaining |-> 0, completed |-> FALSE, next |-> NULL,
     mock |-> FALSE,     \* the body's `mock: true`
     dbConnected |-> FALSE,     \* the body's dbConnected, of GET /health
     lista |-> {}, detalle |-> NULL, eliminados |-> 0]

Idle ==
    [kind |-> "none", pc |-> "idle", pool |-> FALSE, in |-> NoIn,
     tx |-> NoTx, resp |-> Resp(0), calledGetPool |-> FALSE,
     xApiKey |-> UNDEF,      \* the x-api-key header
     ptx |-> NoPtx,
     txCalls |-> <<>>]       \* history: the tx.begin() that succeeded and the calls of
                             \* tx.commit() and tx.rollback(), in order

\* A handler returned: the response is on the wire, its transaction object is gone.
Done(rq, resp) ==
    [rq EXCEPT !.pc = "done", !.resp = resp, !.tx = [NoTx EXCEPT !.solo = rq.tx.solo],
               !.ptx = NoPtx]

\* A handler that has not called getPool.
NoLlamada ==
    [pc |-> "idle",
     p |-> 0,            \* the promise its getPool awaits, by position in promesas
     pool |-> FALSE]     \* what getPool returned is a pool

Batches == 1..Len(prog)
Secuencias(b) == 1..Len(det[b])

\* The process has started: no connect attempted, no request received, empty tables.
Arranque ==
    /\ deployed \in {"server.js", "part_000"}
    /\ configured \in BOOLEAN
    /\ poolPromise = NULL
    /\ connect = "none"
    /\ now = 1
    /\ prog = <<>>
    /\ ctrl = <<>>
    /\ det = <<>>
    /\ req = [r \in Slots |-> Idle]
    /\ ingredientes = <<>>
    /\ ptCab = <<>>
    /\ ptDet = <<>>
    /\ promesas = <<>>
    /\ llamadas = [c \in 1..MaxLlamadas |-> NoLlamada]
    /\ micro = <<>>

\* A deployment without API_KEY.
Init == Arranque /\ apiKey = NOKEY

\* A deployment with or without API_KEY.
InitKey == Arranque /\ apiKey \in {NOKEY, KEY}

\* ------------------------------------------------------------- POST /peso
Falsy(s) == s = UNDEF \/ s = ""

C10_Mutant_PesoInvalido(in) ==
    \/ in.Consecutivo = ABSENT
    \/ Falsy(in.ProductoTerminado)
    \/ in.Secuencia = ABSENT
    \/ Falsy(in.Ingrediente)
    \/ in.Peso = ABSENT

\* The body check of POST /peso.
PesoInvalido(in) ==
    \/ in.Consecutivo = ABSENT
    \/ Falsy(in.ProductoTerminado)
    \/ in.Secuencia = ABSENT
    \/ Falsy(in.Ingrediente)
    \/ in.Tara = ABSENT
    \/ in.Peso = ABSENT

\* String(x).trim()
Trim(s) == IF s = " PT1 " THEN "PT1" ELSE s

\* The optional photo: the data-URL prefix is cut at the first comma, the rest decoded.
StripDataUrl(b64) == IF b64 = "data:image/png;base64,QUJD" THEN "QUJD" ELSE b64
Base64Decode(b64) == IF b64 = "QUJD" THEN "ABC" ELSE ""
FotoBytes(f) == IF Falsy(f) THEN SNULL ELSE Base64Decode(StripDataUrl(f))

\* Etiqueta ?? ''
EtiquetaParam(e) == IF e = UNDEF THEN "" ELSE e

Cargas ==
    { [Tara |-> 0, Peso |-> 1, Etiqueta |-> UNDEF, FotoBase64 |-> UNDEF],
      [Tara |-> 1, Peso |-> 2, Etiqueta |-> "E1", FotoBase64 |-> "data:image/png;base64,QUJD"] }

PesoRequeridos ==
    {"Consecutivo", "ProductoTerminado", "Secuencia", "Ingrediente", "Tara", "Peso"}

\* Bodies that name a line of a batch by its own product and ingredient.
PesoCompletos ==
    { [NoIn EXCEPT !.Consecutivo = c, !.ProductoTerminado = "PT1", !.Secuencia = s,
                   !.Ingrediente = Formula[s], !.Tara = k.Tara, !.Peso = k.Peso,
                   !.Etiqueta = k.Etiqueta, !.FotoBase64 = k.FotoBase64] :
        c \in 1..MaxBatch, s \in 1..MaxLineas, k \in Cargas }

PesoBase == CHOOSE in \in PesoCompletos : in.Consecutivo = 1 /\ in.Secuencia = 1 /\ in.Tara = 0

\* Bodies with padding, another product, another line's ingredient, a batch or a
\* sequence that does not exist.
PesoOtros ==
    { [PesoBase EXCEPT !.ProductoTerminado = " PT1 "],
      [PesoBase EXCEPT !.ProductoTerminado = "PT9"],
      [PesoBase EXCEPT !.Ingrediente = Formula[2]],
      [PesoBase EXCEPT !.Consecutivo = MaxBatch + 1],
      [PesoBase EXCEPT !.Secuencia = MaxLineas + 1] }

CamposTexto ==
    {"ProductoTerminado", "Ingrediente", "Etiqueta", "FotoBase64", "CodigoProducto",
     "UsuarioProgramo", "Nombre", "codigo", "Codigo", "Descripcion",
     "NombreCliente"}

\* The body without field f.
Quitar(in, f) == [in EXCEPT ![f] = IF f \in CamposTexto THEN UNDEF ELSE ABSENT]

PesoIncompletos ==
    { Quitar(PesoBase, f) : f \in PesoRequeridos }
    \cup { [PesoBase EXCEPT !.ProductoTerminado = ""], [PesoBase EXCEPT !.Ingrediente = ""], NoIn }

\* Rows of ProgramacionProduccion_Detalle the WHERE of the weighing UPDATE selects.
Coincide(in) ==
    { bs \in { <<b, s>> : b \in 1..MaxBatch, s \in 1..MaxLineas } :
        /\ bs[1] \in Batches /\ bs[2] \in Secuencias(bs[1])
        /\ bs[1] = in.Consecutivo
        /\ det[bs[1]][bs[2]].ProductoTerminado = Trim(in.ProductoTerminado)
        /\ bs[2] = in.Secuencia
        /\ det[bs[1]][bs[2]].Ingrediente = Trim(in.Ingrediente) }

\* The weighing UPDATE clearing the timestamp of a line that has one.
C27_Mutant_Pesada(linea, in) ==
    [linea EXCEPT !.TaraReal = in.Tara, !.PesoReal = in.Peso,
                  !.TiempoDePesado = IF @ = NULL THEN now ELSE NULL,
                  !.EtiquetaLeida = EtiquetaParam(in.Etiqueta),
                  !.FotoEscaneo = FotoBytes(in.FotoBase64)]

\* SET TaraReal, PesoReal, TiempoDePesado = GETDATE(), EtiquetaLeida, FotoEscaneo
Pesada(linea, in) ==
    [linea EXCEPT !.TaraReal = in.Tara, !.PesoReal = in.Peso, !.TiempoDePesado = now,
                  !.EtiquetaLeida = EtiquetaParam(in.Etiqueta),
                  !.FotoEscaneo = FotoBytes(in.FotoBase64)]

C3_Mutant_MarcaInicio(c) == [c EXCEPT !.ProduccionInicio = now]

\* SET ProduccionInicio = COALESCE(ProduccionInicio, GETDATE())
MarcaInicio(c) == [c EXCEPT !.ProduccionInicio = IF @ # NULL THEN @ ELSE now]

\* SET ProduccionFinal = GETDATE(), LoteCompletado = 1
MarcaFinal(c) == [c EXCEPT !.ProduccionFinal = now, !.LoteCompletado = TRUE]

\* Row locks of the store: a row written by an open transaction is held until it ends.
LineaBloqueada(r, b, s) ==
    \E q \in Slots \ {r} : /\ req[q].tx.open
                           /\ req[q].in.Consecutivo = b /\ req[q].in.Secuencia = s
CtrlBloqueado(r, b) ==
    \E q \in Slots \ {r} : /\ req[q].tx.open /\ req[q].tx.ctrlSet
                           /\ req[q].in.Consecutivo = b

C7_Mutant_VistaDet(r, b, s) == det[b][s]

\* What a statement of request r reads: the committed rows and r's own writes.
VistaDet(r, b, s) ==
    IF req[r].tx.open /\ req[r].in.Consecutivo = b /\ req[r].in.Secuencia = s
    THEN req[r].tx.det ELSE det[b][s]
VistaCtrl(r, b) ==
    IF req[r].tx.open /\ req[r].tx.ctrlSet /\ req[r].in.Consecutivo = b
    THEN req[r].tx.ctrl ELSE ctrl[b]

\* The count reading the committed rows only, without the transaction's own UPDATE.
C23_Mutant_Pendientes(r, b) ==
    Cardinality({ s \in Secuencias(b) : det[b][s].TiempoDePesado = NULL })

\* SELECT COUNT(*) ... WHERE Consecutivo = @consecutivo AND TiempoDePesado IS NULL
Pendientes(r, b) ==
    Cardinality({ s \in Secuencias(b) : VistaDet(r, b, s).TiempoDePesado = NULL })

\* The SELECT reading the committed rows only, without the transaction's own UPDATE.
C24_Mutant_Siguiente(r, b) ==
    LET P == { s \in Secuencias(b) : det[b][s].TiempoDePesado = NULL } IN
    IF P = {} THEN NULL ELSE CHOOSE s \in P : \A t \in P : s <= t

\* SELECT TOP 1 ... WHERE TiempoDePesado IS NULL ORDER BY Secuencia; recordset[0] || null
Siguiente(r, b) ==
    LET P == { s \in Secuencias(b) : VistaDet(r, b, s).TiempoDePesado = NULL } IN
    IF P = {} THEN NULL ELSE CHOOSE s \in P : \A t \in P : s <= t

\* The other weighing transactions open on batch b.
OtrasAbiertas(r, b) ==
    { q \in Slots \ {r} : req[q].tx.open /\ req[q].in.Consecutivo = b }

\* The event loop is idle: no response is waiting to be delivered and no continuation
\* of a settled promise is waiting to run.
Quiet ==
    \A r \in Slots : /\ req[r].pc # "done"
                     /\ ~(req[r].pc = "await" /\ connect # "pending")

C5_Mutant_PesoNoEncontrado(r, rq) ==
    /\ req' = [req EXCEPT ![r] =
                 Done([rq EXCEPT !.txCalls = <<"begin", "rollback">>], Resp(404))]
    /\ ctrl' = [b \in Batches |->
                 IF b = rq.in.Consecutivo /\ rq.in.Secuencia = 1
                 THEN [ctrl[b] EXCEPT !.ProduccionInicio = now] ELSE ctrl[b]]
    /\ UNCHANGED <<prog, det, catalogo>>

\* rowsAffected[0] === 0: await tx.rollback(); 404
PesoNoEncontrado(r, rq) ==
    /\ req' = [req EXCEPT ![r] =
                 Done([rq EXCEPT !.txCalls = <<"begin", "rollback">>], Resp(404))]
    /\ UNCHANGED store

\* server.js, from the answer of getPool to the first statement of the transaction:
\* the mock answer; tx.begin and 1) the weighing UPDATE, which waits for the row's lock;
\* no row: rollback and 404; tx.begin throws: 500; the UPDATE throws: rollback and 500.
PesoBody(r, rq) ==
    IF ~rq.pool
    THEN /\ req' = [req EXCEPT ![r] = Done(rq, [Resp(201) EXCEPT !.mock = TRUE])]
         /\ UNCHANGED store
    ELSE \/ /\ req' = [req EXCEPT ![r] = Done(rq, Resp(500))]
            /\ UNCHANGED store
         \/ /\ req' = [req EXCEPT ![r] =
                         Done([rq EXCEPT !.txCalls = <<"begin", "rollback">>], Resp(500))]
            /\ UNCHANGED store
         \/ /\ Coincide(rq.in) = {}
            /\ PesoNoEncontrado(r, rq)
         \/ \E bs \in Coincide(rq.in) :
              /\ ~LineaBloqueada(r, bs[1], bs[2])
              /\ req' = [q \in Slots |->
                           IF q = r
                           THEN [rq EXCEPT !.tx.open = TRUE,
                                           !.txCalls = <<"begin">>,
                                           !.tx.solo = OtrasAbiertas(r, bs[1]) = {},
                                           !.tx.det = Pesada(det[bs[1]][bs[2]], rq.in),
                                           !.pc = IF rq.in.Secuencia = 1 THEN "inicio" ELSE "pend"]
                           ELSE IF q \in OtrasAbiertas(r, bs[1])
                                THEN [req[q] EXCEPT !.tx.solo = FALSE]
                                ELSE req[q]]
              /\ UNCHANGED store

\* 2) the production start, when Secuencia is 1.
PesoInicio(r) ==
    /\ Quiet
    /\ deployed = "server.js"
    /\ req[r].kind = "peso" /\ req[r].pc = "inicio"
    /\ LET b == req[r].in.Consecutivo IN
       /\ ~CtrlBloqueado(r, b)
       /\ req' = [req EXCEPT ![r].tx.ctrlSet = TRUE,
                             ![r].tx.ctrl = MarcaInicio(VistaCtrl(r, b)),
                             ![r].pc = "pend"]
    /\ UNCHANGED <<poolFino, deployed, configured, apiKey, poolVars, now, store>>

\* 3) the pending count.
PesoPend(r) ==
    /\ Quiet
    /\ deployed = "server.js"
    /\ req[r].kind = "peso" /\ req[r].pc = "pend"
    /\ LET c == Pendientes(r, req[r].in.Consecutivo) IN
       req' = [req EXCEPT ![r].tx.remaining = c,
                          ![r].pc = IF c = 0 THEN "final" ELSE "next"]
    /\ UNCHANGED <<poolFino, deployed, configured, apiKey, poolVars, now, store>>

\* 4) the completion stamp, when nothing is pending.
PesoFinal(r) ==
    /\ Quiet
    /\ deployed = "server.js"
    /\ req[r].kind = "peso" /\ req[r].pc = "final"
    /\ LET b == req[r].in.Consecutivo IN
       /\ ~CtrlBloqueado(r, b)
       /\ req' = [req EXCEPT ![r].tx.ctrlSet = TRUE,
                             ![r].tx.ctrl = MarcaFinal(VistaCtrl(r, b)),
                             ![r].tx.completed = TRUE,
                             ![r].pc = "commit"]
    /\ UNCHANGED <<poolFino, deployed, configured, apiKey, poolVars, now, store>>

\* 5) the next pending line, when the batch is not complete.
PesoNext(r) ==
    /\ Quiet
    /\ deployed = "server.js"
    /\ req[r].kind = "peso" /\ req[r].pc = "next"
    /\ req' = [req EXCEPT ![r].tx.next = Siguiente(r, req[r].in.Consecutivo),
                          ![r].pc = "commit"]
    /\ UNCHANGED <<poolFino, deployed, configured, apiKey, poolVars, now, store>>

\* The rows a commit of request r's transaction makes durable.
DetCommit(r) ==
    [det EXCEPT ![req[r].in.Consecutivo][req[r].in.Secuencia] = req[r].tx.det]
CtrlCommit(r) ==
    IF req[r].tx.ctrlSet
    THEN [ctrl EXCEPT ![req[r].in.Consecutivo] = req[r].tx.ctrl]
    ELSE ctrl

\* await tx.commit(); res.status(201).json({ok, mensaje, remaining, completed, next})
PesoCommit(r) ==
    /\ Quiet
    /\ deployed = "server.js"
    /\ req[r].kind = "peso" /\ req[r].pc = "commit"
    /\ det' = DetCommit(r)
    /\ ctrl' = CtrlCommit(r)
    /\ req' = [req EXCEPT ![r] =
                 Done([req[r] EXCEPT !.txCalls = Append(@, "commit")],
                      [Resp(201) EXCEPT !.remaining = req[r].tx.remaining,
                                        !.completed = req[r].tx.completed,
                                        !.next = req[r].tx.next])]
    /\ UNCHANGED <<poolFino, deployed, configured, apiKey, poolVars, now, prog, catalogo>>

\* The catch without the rollback.
C28_Mutant_PesoFalla(r) ==
    /\ Quiet
    /\ deployed = "server.js"
    /\ req[r].kind = "peso"
    /\ req[r].pc \in {"inicio", "pend", "final", "next", "commit"}
    /\ req' = [req EXCEPT ![r] = Done(@, Resp(500))]
    /\ UNCHANGED <<poolFino, deployed, configured, apiKey, poolVars, now, store>>

\* A statement or tx.commit throws: the catch rolls back, asyncHandler answers 500.
PesoFalla(r) ==
    /\ Quiet
    /\ deployed = "server.js"
    /\ req[r].kind = "peso"
    /\ req[r].pc \in {"inicio", "pend", "final", "next", "commit"}
    /\ req' = [req EXCEPT ![r] =
                 Done([req[r] EXCEPT !.txCalls = IF req[r].pc = "commit"
                                                 THEN @ \o <<"commit", "rollback">>
                                                 ELSE Append(@, "rollback")],
                      Resp(500))]
    /\ UNCHANGED <<poolFino, deployed, configured, apiKey, poolVars, now, store>>

\* ------------------------------------------------ POST /peso, earlier variant
\* From the answer of getPool to the weighing UPDATE on the pool, committed at once.
PesoVBody(r, rq) ==
    IF ~rq.pool
    THEN /\ req' = [req EXCEPT ![r] = Done(rq, Resp(201))]
         /\ UNCHANGED store
    ELSE \/ /\ req' = [req EXCEPT ![r] = Done(rq, Resp(500))]
            /\ UNCHANGED store
         \/ /\ Coincide(rq.in) = {}
            /\ req' = [req EXCEPT ![r] = Done(rq, Resp(404))]
            /\ UNCHANGED store
         \/ \E bs \in Coincide(rq.in) :
              /\ det' = [det EXCEPT ![bs[1]][bs[2]] = Pesada(@, rq.in)]
              /\ req' = [req EXCEPT ![r] =
                           [rq EXCEPT !.pc = IF rq.in.Secuencia = 1 THEN "inicio" ELSE "pend"]]
              /\ UNCHANGED <<prog, ctrl, catalogo>>

\* SET ProduccionInicio = GETDATE() WHERE ... AND ProduccionInicio IS NULL
MarcaInicioV(c) == IF c.ProduccionInicio = NULL THEN [c EXCEPT !.ProduccionInicio = now] ELSE c

PesoVInicio(r) ==
    /\ Quiet
    /\ deployed = "part_000"
    /\ req[r].kind = "peso" /\ req[r].pc = "inicio"
    /\ ctrl' = [ctrl EXCEPT ![req[r].in.Consecutivo] = MarcaInicioV(@)]
    /\ req' = [req EXCEPT ![r].pc = "pend"]
    /\ UNCHANGED <<poolFino, deployed, configured, apiKey, poolVars, now, prog, det, catalogo>>

PesoVPend(r) ==
    /\ Quiet
    /\ deployed = "part_000"
    /\ req[r].kind = "peso" /\ req[r].pc = "pend"
    /\ IF Pendientes(r, req[r].in.Consecutivo) = 0
       THEN req' = [req EXCEPT ![r].pc = "final"]
       ELSE req' = [req EXCEPT ![r] = Done(@, Resp(201))]
    /\ UNCHANGED <<poolFino, deployed, configured, apiKey, poolVars, now, store>>

PesoVFinal(r) ==
    /\ Quiet
    /\ deployed = "part_000"
    /\ req[r].kind = "peso" /\ req[r].pc = "final"
    /\ ctrl' = [ctrl EXCEPT ![req[r].in.Consecutivo] = MarcaFinal(@)]
    /\ req' = [req EXCEPT ![r] = Done(@, Resp(201))]
    /\ UNCHANGED <<poolFino, deployed, configured, apiKey, poolVars, now, prog, det, catalogo>>

\* A statement throws: asyncHandler answers 500; what was written stays written.
PesoVFalla(r) ==
    /\ Quiet
    /\ deployed = "part_000"
    /\ req[r].kind = "peso"
    /\ req[r].pc \in {"inicio", "pend", "final"}
    /\ req' = [req EXCEPT ![r] = Done(@, Resp(500))]
    /\ UNCHANGED <<poolFino, deployed, configured, apiKey, poolVars, now, store>>

\* ------------------------------------------------ POST /lotesprogramados/programar
\* Number(UnidadMedidaId ?? IdUnidadMedida); ABSENT stands for NaN
UnidadId(in) == IF in.UnidadMedidaId # ABSENT THEN in.UnidadMedidaId ELSE in.IdUnidadMedida

FaltaProgramar(in) ==
    \/ Falsy(in.CodigoProducto)
    \/ in.FechaProgramada = ABSENT
    \/ Falsy(in.UsuarioProgramo)
    \/ in.CantidadLotes = ABSENT \/ in.CantidadLotes = 0
    \/ in.PesoPorLote = ABSENT \/ in.PesoPorLote = 0

ProgramarInvalido(in) ==
    FaltaProgramar(in) \/ UnidadId(in) = ABSENT \/ UnidadId(in) <= 0

\* The variant's check has no unit of measure.
ProgramarInvalidoV(in) == FaltaProgramar(in)

ProgCompletos ==
    { [NoIn EXCEPT !.CodigoProducto = "PT1", !.FechaProgramada = f, !.UsuarioProgramo = "u",
                   !.CantidadLotes = n, !.PesoPorLote = 25, !.UnidadMedidaId = u[1],
                   !.IdUnidadMedida = u[2]] :
        f \in Fechas, n \in 1..MaxBatch,
        u \in { <<1, ABSENT>>, <<2, ABSENT>>, <<ABSENT, 1>>, <<ABSENT, ABSENT>> } }

ProgBase == CHOOSE in \in ProgCompletos :
                in.FechaProgramada = 1 /\ in.CantidadLotes = 1 /\ in.UnidadMedidaId = 1

ProgIncompletos ==
    { Quitar(ProgBase, f) :
        f \in {"CodigoProducto", "FechaProgramada", "UsuarioProgramo", "CantidadLotes",
               "PesoPorLote"} }

\* SP_ProgramarLotesProduccion: CantidadLotes batches, each with its control row and one
\* detail line per ingredient of the product's formula.
LineasDeFormula == [s \in 1..MaxLineas |-> LineaNueva(Formula[s])]
RepiteN(x, n) == [i \in 1..n |-> x]
SpProgramarLotes(in) ==
    /\ Len(prog) + in.CantidadLotes <= MaxBatch
    /\ prog' = prog \o RepiteN([Producto |-> in.CodigoProducto, Cancelado |-> FALSE],
                               in.CantidadLotes)
    /\ ctrl' = ctrl \o RepiteN(ControlNuevo(in.FechaProgramada), in.CantidadLotes)
    /\ det' = det \o RepiteN(LineasDeFormula, in.CantidadLotes)
    /\ UNCHANGED catalogo

\* The handler without the lookup of the unit of measure.
C16_Mutant_ProgramarBody(r, rq) ==
    IF ~rq.pool
    THEN /\ req' = [req EXCEPT ![r] = Done(rq, Resp(201))]
         /\ UNCHANGED store
    ELSE \/ /\ req' = [req EXCEPT ![r] = Done(rq, Resp(500))]
            /\ UNCHANGED store
         \/ /\ SpProgramarLotes(rq.in)
            /\ req' = [req EXCEPT ![r] = Done(rq, Resp(201))]

\* server.js: mock answer; unit lookup, then the procedure; a throw: 500.
ProgramarBody(r, rq) ==
    IF ~rq.pool
    THEN /\ req' = [req EXCEPT ![r] = Done(rq, Resp(201))]
         /\ UNCHANGED store
    ELSE \/ /\ req' = [req EXCEPT ![r] = Done(rq, Resp(500))]
            /\ UNCHANGED store
         \/ /\ UnidadId(rq.in) \notin UnidadesActivas
            /\ req' = [req EXCEPT ![r] = Done(rq, Resp(400))]
            /\ UNCHANGED store
         \/ /\ UnidadId(rq.in) \in UnidadesActivas
            /\ SpProgramarLotes(rq.in)
            /\ req' = [req EXCEPT ![r] = Done(rq, Resp(201))]

ProgramarVBody(r, rq) ==
    IF ~rq.pool
    THEN /\ req' = [req EXCEPT ![r] = Done(rq, Resp(201))]
         /\ UNCHANGED store
    ELSE \/ /\ req' = [req EXCEPT ![r] = Done(rq, Resp(500))]
            /\ UNCHANGED store
         \/ /\ SpProgramarLotes(rq.in)
            /\ req' = [req EXCEPT ![r] = Done(rq, Resp(201))]

\* ------------------------------------------------ cancelling (server.js only)
\* ids: the distinct positive integers of body.consecutivos
IdsDe(consecutivos) == { n \in consecutivos : n > 0 }

\* The UPDATE writing Cancelado = 0 to the rows it does not select.
C21_Mutant_Cancela(ids) == [b \in Batches |-> [prog[b] EXCEPT !.Cancelado = b \in ids]]

\* UPDATE ProgramacionProduccion SET Cancelado = 1 WHERE Consecutivo IN (...)
Cancela(ids) == [b \in Batches |-> IF b \in ids THEN [prog[b] EXCEPT !.Cancelado = TRUE]
                                                ELSE prog[b]]

\* POST /lotesprogramados/eliminar
EliminarBody(r, rq) ==
    LET ids == IdsDe(rq.in.consecutivos) IN
    IF ~rq.pool
    THEN /\ req' = [req EXCEPT ![r] = Done(rq, [Resp(200) EXCEPT !.eliminados = Cardinality(ids),
                                                                 !.mock = TRUE])]
         /\ UNCHANGED store
    ELSE \/ /\ req' = [req EXCEPT ![r] = Done(rq, Resp(500))]
            /\ UNCHANGED store
         \/ /\ prog' = Cancela(ids)
            /\ req' = [req EXCEPT ![r] = Done(rq, [Resp(200) EXCEPT !.eliminados = Cardinality(ids)])]
            /\ UNCHANGED <<ctrl, det, catalogo>>

\* DELETE /lotesprogramados/:consecutivo
DeleteBody(r, rq) ==
    IF ~rq.pool
    THEN /\ req' = [req EXCEPT ![r] = Done(rq, [Resp(200) EXCEPT !.mock = TRUE])]
         /\ UNCHANGED store
    ELSE \/ /\ req' = [req EXCEPT ![r] = Done(rq, Resp(500))]
            /\ UNCHANGED store
         \/ /\ prog' = Cancela({rq.in.Consecutivo})
            /\ req' = [req EXCEPT ![r] = Done(rq, Resp(200))]
            /\ UNCHANGED <<ctrl, det, catalogo>>

\* The WHERE of eliminar-rango without `AND b.ProduccionInicio IS NULL`.
C30_Mutant_EnRango(i, f) ==
    { b \in Batches : /\ i <= ctrl[b].FechaProgramada /\ ctrl[b].FechaProgramada <= f
                      /\ ~ctrl[b].LoteCompletado
                      /\ ~prog[b].Cancelado }

\* The batches the UPDATE ... FROM ... INNER JOIN of eliminar-rango selects.
EnRango(i, f) ==
    { b \in Batches : /\ i <= ctrl[b].FechaProgramada /\ ctrl[b].FechaProgramada <= f
                      /\ ~ctrl[b].LoteCompletado
                      /\ ctrl[b].ProduccionInicio = NULL
                      /\ ~prog[b].Cancelado }

\* POST /lotesprogramados/eliminar-rango
RangoBody(r, rq) ==
    LET ids == EnRango(rq.in.inicio, rq.in.fin) IN
    IF ~rq.pool
    THEN /\ req' = [req EXCEPT ![r] = Done(rq, [Resp(200) EXCEPT !.mock = TRUE])]
         /\ UNCHANGED store
    ELSE \/ /\ req' = [req EXCEPT ![r] = Done(rq, Resp(500))]
            /\ UNCHANGED store
         \/ /\ prog' = Cancela(ids)
            /\ req' = [req EXCEPT ![r] = Done(rq, [Resp(200) EXCEPT !.eliminados = Cardinality(ids)])]
            /\ UNCHANGED <<ctrl, det, catalogo>>

\* ------------------------------------------------ GET /lotesprogramados
\* WHERE FechaProgramada BETWEEN @inicio AND @fin AND ISNULL(LoteCompletado, 0) = 0
\*   AND ISNULL(Cancelado, 0) = 0
LotesProgramados(i, f) ==
    { b \in Batches : /\ i <= ctrl[b].FechaProgramada /\ ctrl[b].FechaProgramada <= f
                      /\ ~ctrl[b].LoteCompletado
                      /\ ~prog[b].Cancelado }

\* The variant's WHERE has no Cancelado condition.
LotesProgramadosV(i, f) ==
    { b \in Batches : /\ i <= ctrl[b].FechaProgramada /\ ctrl[b].FechaProgramada <= f
                      /\ ~ctrl[b].LoteCompletado }

\* Consecutivo of the one fixed record of mock mode.
MockLote == 123

LotesBody(r, rq) ==
    IF ~rq.pool
    THEN /\ req' = [req EXCEPT ![r] = Done(rq, [Resp(200) EXCEPT !.lista = {MockLote}])]
         /\ UNCHANGED store
    ELSE \/ /\ req' = [req EXCEPT ![r] = Done(rq, Resp(500))]
            /\ UNCHANGED store
         \/ /\ req' = [req EXCEPT ![r] =
                         Done(rq, [Resp(200) EXCEPT !.lista =
                                     IF deployed = "server.js"
                                     THEN LotesProgramados(rq.in.inicio, rq.in.fin)
                                     ELSE LotesProgramadosV(rq.in.inicio, rq.in.fin)])]
            /\ UNCHANGED store

\* ------------------------------------------------ GET /lotesprogramados/detallelote
\* SELECT TOP 1 ... WHERE a.Consecutivo = @Consecutivo AND c.TiempoDePesado IS NULL
\* ORDER BY c.Secuencia; det.recordset[0] || null
DetallePendiente(c) ==
    IF c \notin Batches THEN NULL
    ELSE LET P == { s \in Secuencias(c) : det[c][s].TiempoDePesado = NULL } IN
         IF P = {} THEN NULL ELSE CHOOSE s \in P : \A t \in P : s <= t

DetalleBody(r, rq) ==
    IF ~rq.pool
    THEN /\ req' = [req EXCEPT ![r] = Done(rq, [Resp(200) EXCEPT !.detalle = 1])]
         /\ UNCHANGED store
    ELSE \/ /\ req' = [req EXCEPT ![r] = Done(rq, Resp(500))]
            /\ UNCHANGED store
         \/ /\ req' = [req EXCEPT ![r] =
                         Done(rq, [Resp(200) EXCEPT !.detalle = DetallePendiente(rq.in.Consecutivo)])]
            /\ UNCHANGED store

\* ------------------------------------------------ GET /api/Clientes/activos
ClientesMock == {1, 2}          \* identificador of Acme and of Globex, the mock answer
ClientesActivos == {3}          \* Identificador of the rows of Clientes with Activo = 1

ClientesBody(r, rq) ==
    IF ~rq.pool
    THEN /\ req' = [req EXCEPT ![r] = Done(rq, [Resp(200) EXCEPT !.lista = ClientesMock])]
         /\ UNCHANGED store
    ELSE \/ /\ req' = [req EXCEPT ![r] = Done(rq, Resp(500))]
            /\ UNCHANGED store
         \/ /\ req' = [req EXCEPT ![r] = Done(rq, [Resp(200) EXCEPT !.lista = ClientesActivos])]
            /\ UNCHANGED store

\* ------------------------------------------------ GET /health
\* The handler answering 500 when getPool returns no pool.
C22_Mutant_HealthBody(r, rq) ==
    /\ req' = [req EXCEPT ![r] = Done(rq, IF rq.pool THEN [Resp(200) EXCEPT !.dbConnected = TRUE]
                                                     ELSE Resp(500))]
    /\ UNCHANGED store

\* const pool = await getPool(); res.json({ ok: true, dbConnected: !!pool })
HealthBody(r, rq) ==
    /\ req' = [req EXCEPT ![r] = Done(rq, [Resp(200) EXCEPT !.dbConnected = rq.pool])]
    /\ UNCHANGED store

\* ------------------------------------------------ Ingredientes
\* What the driver binds for a numeric input: undefined and NaN go as NULL.
NumParam(x) == IF x = ABSENT THEN NULL ELSE x
\* What the driver binds for a string input: undefined goes as NULL.
TextoParam(x) == IF x = UNDEF THEN SNULL ELSE x

Identificadores == 1..Len(ingredientes)

\* !Nombre || CategoriaId == null || Activo == null
IngNuevoInvalido(in) == Falsy(in.Nombre) \/ in.CategoriaId = ABSENT \/ in.Activo = ABSENT

\* PUT /api/Ingredientes/actualizar/:id reads the body and goes on to getPool.
IngActualizarInvalido(in) == FALSE

\* SELECT COUNT(*) FROM Ingredientes WHERE Ingrediente = @nombre; NULL equals nothing.
DupNuevo(in) ==
    Cardinality({ i \in Identificadores :
                    /\ TextoParam(in.Nombre) # SNULL
                    /\ ingredientes[i].Ingrediente = TextoParam(in.Nombre) })

\* The duplicate query of the update without `AND Identificador != @id`.
C20_Mutant_DupActualizar(in) ==
    Cardinality({ i \in Identificadores :
                    /\ TextoParam(in.Nombre) # SNULL
                    /\ ingredientes[i].Ingrediente = TextoParam(in.Nombre) })

\* SELECT COUNT(*) ... WHERE Ingrediente = @nombre AND Identificador != @id
DupActualizar(in) ==
    Cardinality({ i \in Identificadores :
                    /\ TextoParam(in.Nombre) # SNULL
                    /\ ingredientes[i].Ingrediente = TextoParam(in.Nombre)
                    /\ i # in.id })

\* The row the INSERT and the SET of the UPDATE write.
IngFila(in) ==
    [Ingrediente |-> TextoParam(in.Nombre), Activo |-> NumParam(in.Activo),
     CategoriaID |-> NumParam(in.CategoriaId)]

IngCompletos ==
    { [NoIn EXCEPT !.Nombre = n, !.CategoriaId = 1, !.Activo = 1] : n \in {"A", "B"} }

IngBase == CHOOSE in \in IngCompletos : in.Nombre = "A"

IngRequeridos == {"Nombre", "CategoriaId", "Activo"}

IngIncompletos == { Quitar(IngBase, f) : f \in IngRequeridos } \cup {NoIn}

IngCambios ==
    { [NoIn EXCEPT !.id = i, !.Nombre = n, !.CategoriaId = 2, !.Activo = 0] :
        i \in 1..MaxIng, n \in {"A", "B"} }

IngCambioBase == CHOOSE in \in IngCambios : in.id = 1 /\ in.Nombre = "B"

IngCambiosIncompletos == { Quitar(IngCambioBase, f) : f \in IngRequeridos }

\* POST /api/Ingredientes/nuevo from the answer of getPool to the answer of the
\* duplicate query.
IngNuevoBody(r, rq) ==
    IF ~rq.pool
    THEN /\ req' = [req EXCEPT ![r] = Done(rq, Resp(201))]
         /\ UNCHANGED store
    ELSE \/ /\ req' = [req EXCEPT ![r] = Done(rq, Resp(500))]
            /\ UNCHANGED store
         \/ /\ DupNuevo(rq.in) > 0
            /\ req' = [req EXCEPT ![r] = Done(rq, Resp(409))]
            /\ UNCHANGED store
         \/ /\ DupNuevo(rq.in) = 0
            /\ req' = [req EXCEPT ![r] = [rq EXCEPT !.pc = "insert"]]
            /\ UNCHANGED store

\* PUT /api/Ingredientes/actualizar/:id, the same stretch.
IngActualizarBody(r, rq) ==
    IF ~rq.pool
    THEN /\ req' = [req EXCEPT ![r] = Done(rq, Resp(200))]
         /\ UNCHANGED store
    ELSE \/ /\ req' = [req EXCEPT ![r] = Done(rq, Resp(500))]
            /\ UNCHANGED store
         \/ /\ DupActualizar(rq.in) > 0
            /\ req' = [req EXCEPT ![r] = Done(rq, Resp(409))]
            /\ UNCHANGED store
         \/ /\ DupActualizar(rq.in) = 0
            /\ req' = [req EXCEPT ![r] = [rq EXCEPT !.pc = "update"]]
            /\ UNCHANGED store

\* INSERT INTO Ingredientes ...; SELECT SCOPE_IDENTITY(); 201
IngInsert(r) ==
    /\ Quiet
    /\ req[r].kind = "ingnuevo" /\ req[r].pc = "insert"
    /\ Len(ingredientes) < MaxIng
    /\ ingredientes' = Append(ingredientes, IngFila(req[r].in))
    /\ req' = [req EXCEPT ![r] = Done(@, Resp(201))]
    /\ UNCHANGED <<poolFino, deployed, configured, apiKey, poolVars, now, lotes, ptCab, ptDet>>

\* UPDATE Ingredientes SET ... WHERE Identificador = @id; 200 whatever it matched
IngUpdate(r) ==
    /\ Quiet
    /\ req[r].kind = "ingactualizar" /\ req[r].pc = "update"
    /\ ingredientes' = [i \in Identificadores |->
                          IF i = req[r].in.id THEN IngFila(req[r].in) ELSE ingredientes[i]]
    /\ req' = [req EXCEPT ![r] = Done(@, Resp(200))]
    /\ UNCHANGED <<poolFino, deployed, configured, apiKey, poolVars, now, lotes, ptCab, ptDet>>

\* The INSERT or the UPDATE throws: asyncHandler answers 500.
IngFalla(r) ==
    /\ Quiet
    /\ req[r].kind \in {"ingnuevo", "ingactualizar"}
    /\ req[r].pc \in {"insert", "update"}
    /\ req' = [req EXCEPT ![r] = Done(@, Resp(500))]
    /\ UNCHANGED <<poolFino, deployed, configured, apiKey, poolVars, now, store>>

\* ------------------------------------------------ ProductosTerminados
Codigos == {"P1"}
Recetas == {<<>>, <<"5">>, <<"6", "5">>}      \* Ingredientes: the Clave of each entry

\* !Codigo || !Descripcion || ClienteId == null || !NombreCliente || !Array.isArray(Ingredientes)
PtNuevoInvalido(in) ==
    \/ Falsy(in.Codigo)
    \/ Falsy(in.Descripcion)
    \/ in.ClienteId = ABSENT
    \/ Falsy(in.NombreCliente)
    \/ in.Ingredientes = NoArray

\* !Descripcion || ClienteId == null || !NombreCliente || typeof Activo !== 'boolean'
\*   || !Array.isArray(Ingredientes)
PtEditarInvalido(in) ==
    \/ Falsy(in.Descripcion)
    \/ in.ClienteId = ABSENT
    \/ Falsy(in.NombreCliente)
    \/ in.Activo = ABSENT
    \/ in.Ingredientes = NoArray

\* The body without field f.
QuitarPt(in, f) ==
    IF f = "Ingredientes" THEN [in EXCEPT !.Ingredientes = NoArray] ELSE Quitar(in, f)

PtNuevos ==
    { [NoIn EXCEPT !.Codigo = c, !.Descripcion = "d1", !.ClienteId = 1,
                   !.NombreCliente = "Acme", !.Ingredientes = l] :
        c \in Codigos, l \in Recetas }

PtNuevoBase == CHOOSE in \in PtNuevos : in.Codigo = "P1" /\ in.Ingredientes = <<"5">>

PtNuevosIncompletos ==
    { QuitarPt(PtNuevoBase, f) :
        f \in {"Codigo", "Descripcion", "ClienteId", "NombreCliente", "Ingredientes"} }

PtEdiciones ==
    { [NoIn EXCEPT !.codigo = c, !.Descripcion = "d2", !.ClienteId = 1,
                   !.NombreCliente = "Acme", !.Activo = 0, !.Ingredientes = l] :
        c \in Codigos, l \in Recetas }

PtEdicionBase == CHOOSE in \in PtEdiciones : in.codigo = "P1" /\ in.Ingredientes = <<"5">>

PtEdicionesIncompletas ==
    { QuitarPt(PtEdicionBase, f) :
        f \in {"Descripcion", "ClienteId", "NombreCliente", "Activo", "Ingredientes"} }

\* The product code the statements of request rq use.
CodigoDe(rq) == IF rq.kind = "ptnuevo" THEN rq.in.Codigo ELSE rq.in.codigo

\* INSERT INTO ProductosTerminados (...) VALUES (@Codigo, @Descripcion, ..., 1)
CabeceraNueva(in) == [CodigoProducto |-> in.Codigo, Descripcion |-> in.Descripcion, Activo |-> 1]

\* A detail row whose number is not counted up.
C19_Mutant_DetalleNuevo(c, num, clave) ==
    [CodigoProducto |-> c, NumIngrediente |-> 1, Ingrediente |-> clave]

\* INSERT INTO ProductosTerminados_Detalle (...) VALUES (@CodigoProducto, @Num, @Ingrediente, ...)
DetalleNuevo(c, num, clave) == [CodigoProducto |-> c, NumIngrediente |-> num, Ingrediente |-> clave]

\* Positions of the rows of product c in a table.
FilasDe(tabla, c) == { i \in 1..Len(tabla) : tabla[i].CodigoProducto = c }

\* The first k rows of product c: the rows a statement of an open transaction matched,
\* since rows committed later are stored after them.
Primeras(tabla, c, k) ==
    { i \in FilasDe(tabla, c) : Cardinality({ j \in FilasDe(tabla, c) : j <= i }) <= k }

\* The table without the rows at positions I.
SinFilas(tabla, I) ==
    LET quedan == SelectSeq([i \in 1..Len(tabla) |-> <<i \in I, tabla[i]>>],
                            LAMBDA x : ~x[1])
    IN  [i \in 1..Len(quedan) |-> quedan[i][2]]

\* Other open transactions on product c.
OtrasPtx(r, c) == { q \in Slots \ {r} : req[q].ptx.open /\ CodigoDe(req[q]) = c }

\* The UPDATE of the header waits while another transaction holds a header row of the
\* product it inserted or updated.
CabBloqueada(r, c) ==
    \E q \in OtrasPtx(r, c) : req[q].ptx.cab # <<>> \/ req[q].ptx.hallados > 0

\* The DELETE of the detail rows waits while another transaction holds detail rows of
\* the product it inserted or deleted.
DetBloqueado(r, c) ==
    \E q \in OtrasPtx(r, c) : req[q].ptx.det # <<>> \/ req[q].ptx.borrados > 0

\* Header rows in the table or inserted by an open transaction.
CabecerasEscritas ==
    Len(ptCab) + Cardinality({ q \in Slots : req[q].ptx.cab # <<>> })

\* tx.begin() of request rq; the transactions on the same product now overlap.
PtBegin(r, rq, pc) ==
    req' = [q \in Slots |->
              IF q = r
              THEN [rq EXCEPT !.pc = pc, !.ptx.open = TRUE, !.txCalls = <<"begin">>,
                              !.ptx.solo = OtrasPtx(r, CodigoDe(rq)) = {}]
              ELSE IF q \in OtrasPtx(r, CodigoDe(rq))
                   THEN [req[q] EXCEPT !.ptx.solo = FALSE]
                   ELSE req[q]]

\* POST /api/ProductosTerminados/nuevo from the answer of getPool to tx.begin().
PtNuevoBody(r, rq) ==
    IF ~rq.pool
    THEN /\ req' = [req EXCEPT ![r] = Done(rq, Resp(201))]
         /\ UNCHANGED store
    ELSE \/ /\ req' = [req EXCEPT ![r] = Done(rq, Resp(500))]
            /\ UNCHANGED store
         \/ /\ PtBegin(r, rq, "cabecera")
            /\ UNCHANGED store

\* PUT /api/ProductosTerminados/editar/:codigo, the same stretch.
PtEditarBody(r, rq) ==
    IF ~rq.pool
    THEN /\ req' = [req EXCEPT ![r] = Done(rq, Resp(200))]
         /\ UNCHANGED store
    ELSE \/ /\ req' = [req EXCEPT ![r] = Done(rq, Resp(500))]
            /\ UNCHANGED store
         \/ /\ PtBegin(r, rq, "actualiza")
            /\ UNCHANGED store

\* nuevo: the INSERT of the header row.
PtCabecera(r) ==
    /\ Quiet
    /\ req[r].kind = "ptnuevo" /\ req[r].pc = "cabecera"
    /\ CabecerasEscritas < MaxProductos
    /\ req' = [req EXCEPT ![r].ptx.cab = <<CabeceraNueva(req[r].in)>>,
                          ![r].pc = "detalle"]
    /\ UNCHANGED <<poolFino, deployed, configured, apiKey, poolVars, now, store>>

\* editar: the UPDATE of the header row.
PtActualiza(r) ==
    /\ Quiet
    /\ req[r].kind = "pteditar" /\ req[r].pc = "actualiza"
    /\ ~CabBloqueada(r, CodigoDe(req[r]))
    /\ req' = [req EXCEPT ![r].ptx.hallados = Cardinality(FilasDe(ptCab, CodigoDe(req[r]))),
                          ![r].pc = "borra"]
    /\ UNCHANGED <<poolFino, deployed, configured, apiKey, poolVars, now, store>>

\* editar: DELETE FROM ProductosTerminados_Detalle WHERE CodigoProducto = @Codigo
PtBorra(r) ==
    /\ Quiet
    /\ req[r].kind = "pteditar" /\ req[r].pc = "borra"
    /\ ~DetBloqueado(r, CodigoDe(req[r]))
    /\ req' = [req EXCEPT ![r].ptx.borrados = Cardinality(FilasDe(ptDet, CodigoDe(req[r]))),
                          ![r].pc = "detalle"]
    /\ UNCHANGED <<poolFino, deployed, configured, apiKey, poolVars, now, store>>

\* for (const ing of Ingredientes): the INSERT of the next detail row, Num = num++
PtDetalle(r) ==
    /\ Quiet
    /\ req[r].kind \in {"ptnuevo", "pteditar"} /\ req[r].pc = "detalle"
    /\ Len(req[r].ptx.det) < Len(req[r].in.Ingredientes)
    /\ LET num == Len(req[r].ptx.det) + 1 IN
       req' = [req EXCEPT ![r].ptx.det =
                 Append(@, DetalleNuevo(CodigoDe(req[r]), num, req[r].in.Ingredientes[num]))]
    /\ UNCHANGED <<poolFino, deployed, configured, apiKey, poolVars, now, store>>

\* What tx.commit() makes durable.
PtCabCommit(r) ==
    LET U == Primeras(ptCab, CodigoDe(req[r]), req[r].ptx.hallados) IN
    [i \in 1..Len(ptCab) |->
       IF i \in U THEN [ptCab[i] EXCEPT !.Descripcion = req[r].in.Descripcion,
                                        !.Activo = req[r].in.Activo]
       ELSE ptCab[i]] \o req[r].ptx.cab

PtDetCommit(r) ==
    SinFilas(ptDet, Primeras(ptDet, CodigoDe(req[r]), req[r].ptx.borrados)) \o req[r].ptx.det

\* The loop is over: await tx.commit(); 201 for nuevo, 200 for editar.
PtCommit(r) ==
    /\ Quiet
    /\ req[r].kind \in {"ptnuevo", "pteditar"} /\ req[r].pc = "detalle"
    /\ Len(req[r].ptx.det) = Len(req[r].in.Ingredientes)
    /\ Len(PtDetCommit(r)) <= MaxDetalles
    /\ ptCab' = PtCabCommit(r)
    /\ ptDet' = PtDetCommit(r)
    /\ req' = [req EXCEPT ![r] =
                 Done([req[r] EXCEPT !.txCalls = Append(@, "commit")],
                      Resp(IF req[r].kind = "ptnuevo" THEN 201 ELSE 200))]
    /\ UNCHANGED <<poolFino, deployed, configured, apiKey, poolVars, now, lotes, ingredientes>>

\* The catch without the rollback: what the statements wrote stays.
C18_Mutant_PtFalla(r) ==
    /\ Quiet
    /\ req[r].kind \in {"ptnuevo", "pteditar"}
    /\ req[r].pc \in {"cabecera", "actualiza", "borra", "detalle"}
    /\ ptCab' = ptCab \o req[r].ptx.cab
    /\ ptDet' = ptDet \o req[r].ptx.det
    /\ req' = [req EXCEPT ![r] = Done(@, Resp(500))]
    /\ UNCHANGED <<poolFino, deployed, configured, apiKey, poolVars, now, lotes, ingredientes>>

\* A statement or tx.commit throws: the catch rolls back, asyncHandler answers 500.
PtFalla(r) ==
    /\ Quiet
    /\ req[r].kind \in {"ptnuevo", "pteditar"}
    /\ req[r].pc \in {"cabecera", "actualiza", "borra", "detalle"}
    /\ req' = [req EXCEPT ![r] =
                 Done([req[r] EXCEPT !.txCalls =
                         IF /\ req[r].pc = "detalle"
                            /\ Len(req[r].ptx.det) = Len(req[r].in.Ingredientes)
                         THEN @ \o <<"commit", "rollback">>
                         ELSE Append(@, "rollback")],
                      Resp(500))]
    /\ UNCHANGED <<poolFino, deployed, configured, apiKey, poolVars, now, store>>

\* ------------------------------------------------------------- getPool
\* The handler of request rq from the answer of `await getPool()` on.
Body(r, rq) ==
    CASE rq.kind = "peso" -> IF deployed = "server.js" THEN PesoBody(r, rq) ELSE PesoVBody(r, rq)
      [] rq.kind = "programar" ->
            IF deployed = "server.js" THEN ProgramarBody(r, rq) ELSE ProgramarVBody(r, rq)
      [] rq.kind = "eliminar" -> EliminarBody(r, rq)
      [] rq.kind = "delete" -> DeleteBody(r, rq)
      [] rq.kind = "rango" -> RangoBody(r, rq)
      [] rq.kind = "lotes" -> LotesBody(r, rq)
      [] rq.kind = "detalle" -> DetalleBody(r, rq)
      [] rq.kind = "clientes" -> ClientesBody(r, rq)
      [] rq.kind = "health" -> HealthBody(r, rq)
      [] rq.kind = "ingnuevo" -> IngNuevoBody(r, rq)
      [] rq.kind = "ingactualizar" -> IngActualizarBody(r, rq)
      [] rq.kind = "ptnuevo" -> PtNuevoBody(r, rq)
      [] rq.kind = "pteditar" -> PtEditarBody(r, rq)

\* getPool without the check of the credentials.
C13_Mutant_GetPool(r, rq) ==
    LET called == [rq EXCEPT !.calledGetPool = TRUE] IN
    IF poolPromise = NULL
    THEN /\ poolPromise' = PROMISE
         /\ connect' = "pending"
         /\ req' = [req EXCEPT ![r] = [called EXCEPT !.pc = "await"]]
         /\ UNCHANGED store
    ELSE CASE connect = "pending" ->
                /\ req' = [req EXCEPT ![r] = [called EXCEPT !.pc = "await"]]
                /\ UNCHANGED <<poolVars, store>>
           [] connect = "resolved" ->
                /\ Body(r, [called EXCEPT !.pool = TRUE])
                /\ UNCHANGED poolVars
           [] connect = "rejected" ->
                /\ Body(r, [called EXCEPT !.pool = FALSE])
                /\ poolPromise' = NULL
                /\ UNCHANGED connect

\* `await getPool()`: mock mode without credentials; sql.connect when no promise is
\* cached, and the await of it; otherwise the await of the cached promise, which
\* answers at once when it is settled; the catch clears the cache and answers null.
GetPool(r, rq) ==
    LET called == [rq EXCEPT !.calledGetPool = TRUE] IN
    IF poolPromise = NULL
    THEN IF ~configured
         THEN /\ Body(r, [called EXCEPT !.pool = FALSE])
              /\ UNCHANGED poolVars
         ELSE /\ poolPromise' = PROMISE
              /\ connect' = "pending"
              /\ req' = [req EXCEPT ![r] = [called EXCEPT !.pc = "await"]]
              /\ UNCHANGED store
    ELSE CASE connect = "pending" ->
                /\ req' = [req EXCEPT ![r] = [called EXCEPT !.pc = "await"]]
                /\ UNCHANGED <<poolVars, store>>
           [] connect = "resolved" ->
                /\ Body(r, [called EXCEPT !.pool = TRUE])
                /\ UNCHANGED poolVars
           [] connect = "rejected" ->
                /\ Body(r, [called EXCEPT !.pool = FALSE])
                /\ poolPromise' = NULL
                /\ UNCHANGED connect

\* sql.connect settles.
ConnectOk ==
    /\ Quiet
    /\ connect = "pending"
    /\ connect' = "resolved"
    /\ UNCHANGED <<poolFino, deployed, configured, apiKey, poolPromise, now, store, req>>

ConnectFail ==
    /\ Quiet
    /\ connect = "pending"
    /\ connect' = "rejected"
    /\ UNCHANGED <<poolFino, deployed, configured, apiKey, poolPromise, now, store, req>>

\* The catch of getPool without `poolPromise = null`.
C14_Mutant_AwaitPool(r) ==
    /\ req[r].pc = "await"
    /\ connect # "pending"
    /\ IF connect = "resolved"
       THEN Body(r, [req[r] EXCEPT !.pool = TRUE])
       ELSE Body(r, [req[r] EXCEPT !.pool = FALSE])
    /\ UNCHANGED <<poolFino, deployed, configured, apiKey, poolVars, now>>

\* `return await poolPromise` resumes, or the catch of getPool runs; the handler goes on.
\* The continuations of a settled promise are microtasks: they run before the next
\* request or database answer is looked at.
AwaitPool(r) ==
    /\ req[r].pc = "await"
    /\ connect # "pending"
    /\ IF connect = "resolved"
       THEN /\ Body(r, [req[r] EXCEPT !.pool = TRUE])
            /\ UNCHANGED poolPromise
       ELSE /\ Body(r, [req[r] EXCEPT !.pool = FALSE])
            /\ poolPromise' = NULL
    /\ UNCHANGED <<poolFino, deployed, configured, apiKey, connect, now>>

\* A request takes the first free slot.
Libre(r) ==
    /\ req[r].pc = "idle"
    /\ \A q \in Slots : q < r => req[q].pc # "idle"

\* ------------------------------------------------------------- the API key
\* Values of the x-api-key header.  Without API_KEY the middleware calls next() before
\* it reads the header, so one value stands for all of them.
Cabeceras == IF apiKey = NOKEY THEN {UNDEF} ELSE {UNDEF, KEY, "k2"}

\* The key check letting a request without the header through.
C15_Mutant_NoAutorizado(h) == apiKey # NOKEY /\ h # apiKey /\ h # UNDEF

\* if (!API_KEY) return next(); if (req.header('x-api-key') !== API_KEY) return 401
NoAutorizado(h) == apiKey # NOKEY /\ h # apiKey

\* res.status(401).json({ error: 'unauthorized' }): next() is not called, no route runs.
Rechaza(r, kind, h) ==
    /\ req' = [req EXCEPT ![r] = Done([Idle EXCEPT !.kind = kind, !.xApiKey = h], Resp(401))]
    /\ UNCHANGED <<poolVars, store>>

\* ------------------------------------------------------------- requests arrive
ArrivePeso(r) ==
    /\ Quiet
    /\ Libre(r)
    /\ \E h \in Cabeceras, in \in PesoCompletos \cup PesoOtros \cup PesoIncompletos :
         LET rq == [Idle EXCEPT !.kind = "peso", !.xApiKey = h, !.in = in] IN
         IF NoAutorizado(h) THEN Rechaza(r, rq.kind, h) ELSE
         IF PesoInvalido(in)
         THEN /\ req' = [req EXCEPT ![r] = Done(rq, Resp(400))]
              /\ UNCHANGED <<poolVars, store>>
         ELSE GetPool(r, rq)
    /\ UNCHANGED <<poolFino, deployed, configured, apiKey, now>>

ArriveProgramar(r) ==
    /\ Quiet
    /\ Libre(r)
    /\ \E h \in Cabeceras, in \in ProgCompletos \cup ProgIncompletos :
         LET rq == [Idle EXCEPT !.kind = "programar", !.xApiKey = h, !.in = in] IN
         IF NoAutorizado(h) THEN Rechaza(r, rq.kind, h) ELSE
         IF (deployed = "server.js" /\ ProgramarInvalido(in))
            \/ (deployed = "part_000" /\ ProgramarInvalidoV(in))
         THEN /\ req' = [req EXCEPT ![r] = Done(rq, Resp(400))]
              /\ UNCHANGED <<poolVars, store>>
         ELSE GetPool(r, rq)
    /\ UNCHANGED <<poolFino, deployed, configured, apiKey, now>>

ArriveEliminar(r) ==
    /\ Quiet
    /\ deployed = "server.js"
    /\ Libre(r)
    /\ \E h \in Cabeceras, cs \in (SUBSET (1..MaxBatch)) \cup {{0}} :
         LET rq == [Idle EXCEPT !.kind = "eliminar", !.xApiKey = h, !.in.consecutivos = cs] IN
         IF NoAutorizado(h) THEN Rechaza(r, rq.kind, h) ELSE
         IF IdsDe(cs) = {}
         THEN /\ req' = [req EXCEPT ![r] = Done(rq, Resp(400))]
              /\ UNCHANGED <<poolVars, store>>
         ELSE GetPool(r, rq)
    /\ UNCHANGED <<poolFino, deployed, configured, apiKey, now>>

ArriveDelete(r) ==
    /\ Quiet
    /\ deployed = "server.js"
    /\ Libre(r)
    /\ \E h \in Cabeceras, c \in 0..MaxBatch :
         LET rq == [Idle EXCEPT !.kind = "delete", !.xApiKey = h, !.in.Consecutivo = c] IN
         IF NoAutorizado(h) THEN Rechaza(r, rq.kind, h) ELSE
         IF c <= 0
         THEN /\ req' = [req EXCEPT ![r] = Done(rq, Resp(400))]
              /\ UNCHANGED <<poolVars, store>>
         ELSE GetPool(r, rq)
    /\ UNCHANGED <<poolFino, deployed, configured, apiKey, now>>

ArriveRango(r) ==
    /\ Quiet
    /\ deployed = "server.js"
    /\ Libre(r)
    /\ \E h \in Cabeceras, i \in Rangos \cup {ABSENT}, f \in Rangos \cup {ABSENT} :
         LET rq == [Idle EXCEPT !.kind = "rango", !.xApiKey = h, !.in.inicio = i, !.in.fin = f] IN
         IF NoAutorizado(h) THEN Rechaza(r, rq.kind, h) ELSE
         IF i = ABSENT \/ f = ABSENT
         THEN /\ req' = [req EXCEPT ![r] = Done(rq, Resp(400))]
              /\ UNCHANGED <<poolVars, store>>
         ELSE GetPool(r, rq)
    /\ UNCHANGED <<poolFino, deployed, configured, apiKey, now>>

ArriveLotes(r) ==
    /\ Quiet
    /\ Libre(r)
    /\ \E h \in Cabeceras, i \in Rangos \cup {ABSENT}, f \in Rangos \cup {ABSENT} :
         LET rq == [Idle EXCEPT !.kind = "lotes", !.xApiKey = h, !.in.inicio = i, !.in.fin = f] IN
         IF NoAutorizado(h) THEN Rechaza(r, rq.kind, h) ELSE
         IF i = ABSENT \/ f = ABSENT
         THEN /\ req' = [req EXCEPT ![r] = Done(rq, Resp(400))]
              /\ UNCHANGED <<poolVars, store>>
         ELSE GetPool(r, rq)
    /\ UNCHANGED <<poolFino, deployed, configured, apiKey, now>>

ArriveDetalle(r) ==
    /\ Quiet
    /\ Libre(r)
    /\ \E h \in Cabeceras, c \in (0..MaxBatch) \cup {ABSENT} :
         LET rq == [Idle EXCEPT !.kind = "detalle", !.xApiKey = h, !.in.Consecutivo = c] IN
         IF NoAutorizado(h) THEN Rechaza(r, rq.kind, h) ELSE
         IF c = ABSENT \/ c = 0
         THEN /\ req' = [req EXCEPT ![r] = Done(rq, Resp(400))]
              /\ UNCHANGED <<poolVars, store>>
         ELSE GetPool(r, rq)
    /\ UNCHANGED <<poolFino, deployed, configured, apiKey, now>>

ArriveClientes(r) ==
    /\ Quiet
    /\ Libre(r)
    /\ \E h \in Cabeceras :
         LET rq == [Idle EXCEPT !.kind = "clientes", !.xApiKey = h] IN
         IF NoAutorizado(h) THEN Rechaza(r, rq.kind, h) ELSE
         GetPool(r, rq)
    /\ UNCHANGED <<poolFino, deployed, configured, apiKey, now>>

ArriveHealth(r) ==
    /\ Quiet
    /\ Libre(r)
    /\ \E h \in Cabeceras :
         LET rq == [Idle EXCEPT !.kind = "health", !.xApiKey = h] IN
         IF NoAutorizado(h) THEN Rechaza(r, rq.kind, h) ELSE GetPool(r, rq)
    /\ UNCHANGED <<poolFino, deployed, configured, apiKey, now>>

ArriveIngNuevo(r) ==
    /\ Quiet
    /\ Libre(r)
    /\ \E h \in Cabeceras, in \in IngCompletos \cup IngIncompletos :
         LET rq == [Idle EXCEPT !.kind = "ingnuevo", !.xApiKey = h, !.in = in] IN
         IF NoAutorizado(h) THEN Rechaza(r, rq.kind, h) ELSE
         IF IngNuevoInvalido(in)
         THEN /\ req' = [req EXCEPT ![r] = Done(rq, Resp(400))]
              /\ UNCHANGED <<poolVars, store>>
         ELSE GetPool(r, rq)
    /\ UNCHANGED <<poolFino, deployed, configured, apiKey, now>>

ArriveIngActualizar(r) ==
    /\ Quiet
    /\ Libre(r)
    /\ \E h \in Cabeceras, in \in IngCambios \cup IngCambiosIncompletos :
         LET rq == [Idle EXCEPT !.kind = "ingactualizar", !.xApiKey = h, !.in = in] IN
         IF NoAutorizado(h) THEN Rechaza(r, rq.kind, h) ELSE
         IF IngActualizarInvalido(in)
         THEN /\ req' = [req EXCEPT ![r] = Done(rq, Resp(400))]
              /\ UNCHANGED <<poolVars, store>>
         ELSE GetPool(r, rq)
    /\ UNCHANGED <<poolFino, deployed, configured, apiKey, now>>

ArrivePtNuevo(r) ==
    /\ Quiet
    /\ Libre(r)
    /\ \E h \in Cabeceras, in \in PtNuevos \cup PtNuevosIncompletos :
         LET rq == [Idle EXCEPT !.kind = "ptnuevo", !.xApiKey = h, !.in = in] IN
         IF NoAutorizado(h) THEN Rechaza(r, rq.kind, h) ELSE
         IF PtNuevoInvalido(in)
         THEN /\ req' = [req EXCEPT ![r] = Done(rq, Resp(400))]
              /\ UNCHANGED <<poolVars, store>>
         ELSE GetPool(r, rq)
    /\ UNCHANGED <<poolFino, deployed, configured, apiKey, now>>

ArrivePtEditar(r) ==
    /\ Quiet
    /\ Libre(r)
    /\ \E h \in Cabeceras, in \in PtEdiciones \cup PtEdicionesIncompletas :
         LET rq == [Idle EXCEPT !.kind = "pteditar", !.xApiKey = h, !.in = in] IN
         IF NoAutorizado(h) THEN Rechaza(r, rq.kind, h) ELSE
         IF PtEditarInvalido(in)
         THEN /\ req' = [req EXCEPT ![r] = Done(rq, Resp(400))]
              /\ UNCHANGED <<poolVars, store>>
         ELSE GetPool(r, rq)
    /\ UNCHANGED <<poolFino, deployed, configured, apiKey, now>>

\* The store's clock advances.
Tick ==
    /\ Quiet
    /\ now < MaxClock
    /\ now' = now + 1
    /\ UNCHANGED <<poolFino, deployed, configured, apiKey, poolVars, store, req>>

\* The response has been delivered; the slot serves the next request.
Release(r) ==
    /\ req[r].pc = "done"
    /\ req' = [req EXCEPT ![r] = Idle]
    /\ UNCHANGED <<poolFino, deployed, configured, apiKey, poolVars, now, store>>

Next ==
    \/ \E r \in Slots : Release(r)
    \/ \E r \in Slots : AwaitPool(r)
    \/ ConnectOk
    \/ ConnectFail
    \/ \E r \in Slots : ArrivePeso(r)
    \/ \E r \in Slots : PesoInicio(r)
    \/ \E r \in Slots : PesoPend(r)
    \/ \E r \in Slots : PesoFinal(r)
    \/ \E r \in Slots : PesoNext(r)
    \/ \E r \in Slots : PesoCommit(r)
    \/ \E r \in Slots : PesoFalla(r)
    \/ \E r \in Slots : PesoVInicio(r)
    \/ \E r \in Slots : PesoVPend(r)
    \/ \E r \in Slots : PesoVFinal(r)
    \/ \E r \in Slots : PesoVFalla(r)
    \/ \E r \in Slots : ArriveProgramar(r)
    \/ \E r \in Slots : ArriveEliminar(r)
    \/ \E r \in Slots : ArriveDelete(r)
    \/ \E r \in Slots : ArriveRango(r)
    \/ \E r \in Slots : ArriveLotes(r)
    \/ \E r \in Slots : ArriveDetalle(r)
    \/ Tick

Spec == Init /\ [][Next]_vars

\* The health route and the master-data routes of clients and ingredients, with or
\* without API_KEY.
NextIng ==
    \/ \E r \in Slots : Release(r)
    \/ \E r \in Slots : AwaitPool(r)
    \/ ConnectOk
    \/ ConnectFail
    \/ \E r \in Slots : ArriveClientes(r)
    \/ \E r \in Slots : ArriveHealth(r)
    \/ \E r \in Slots : ArriveIngNuevo(r)
    \/ \E r \in Slots : ArriveIngActualizar(r)
    \/ \E r \in Slots : IngInsert(r)
    \/ \E r \in Slots : IngUpdate(r)
    \/ \E r \in Slots : IngFalla(r)

SpecIng == InitKey /\ [][NextIng]_vars

\* The routes that register and edit finished products, with or without API_KEY.
NextPT ==
    \/ \E r \in Slots : Release(r)
    \/ \E r \in Slots : AwaitPool(r)
    \/ ConnectOk
    \/ ConnectFail
    \/ \E r \in Slots : ArrivePtNuevo(r)
    \/ \E r \in Slots : ArrivePtEditar(r)
    \/ \E r \in Slots : PtCabecera(r)
    \/ \E r \in Slots : PtActualiza(r)
    \/ \E r \in Slots : PtBorra(r)
    \/ \E r \in Slots : PtDetalle(r)
    \/ \E r \in Slots : PtCommit(r)
    \/ \E r \in Slots : PtFalla(r)

SpecPT == InitKey /\ [][NextPT]_vars

\* The key check in front of the routes of the lots and of the clients, one request at
\* a time, with or without API_KEY.
NadieEnCurso == \A q \in Slots : req[q].pc = "idle"

KeyPeso(r) == NadieEnCurso /\ ArrivePeso(r)
KeyProgramar(r) == NadieEnCurso /\ ArriveProgramar(r)
KeyEliminar(r) == NadieEnCurso /\ ArriveEliminar(r)
KeyDelete(r) == NadieEnCurso /\ ArriveDelete(r)
KeyRango(r) == NadieEnCurso /\ ArriveRango(r)
KeyLotes(r) == NadieEnCurso /\ ArriveLotes(r)
KeyDetalle(r) == NadieEnCurso /\ ArriveDetalle(r)
KeyClientes(r) == NadieEnCurso /\ ArriveClientes(r)

NextKey ==
    \/ \E r \in Slots : Release(r)
    \/ \E r \in Slots : AwaitPool(r)
    \/ ConnectOk
    \/ ConnectFail
    \/ \E r \in Slots : KeyPeso(r)
    \/ \E r \in Slots : KeyProgramar(r)
    \/ \E r \in Slots : KeyEliminar(r)
    \/ \E r \in Slots : KeyDelete(r)
    \/ \E r \in Slots : KeyRango(r)
    \/ \E r \in Slots : KeyLotes(r)
    \/ \E r \in Slots : KeyDetalle(r)
    \/ \E r \in Slots : KeyClientes(r)
    \/ \E r \in Slots : PesoInicio(r)
    \/ \E r \in Slots : PesoPend(r)
    \/ \E r \in Slots : PesoFinal(r)
    \/ \E r \in Slots : PesoNext(r)
    \/ \E r \in Slots : PesoCommit(r)
    \/ \E r \in Slots : PesoFalla(r)
    \/ \E r \in Slots : PesoVInicio(r)
    \/ \E r \in Slots : PesoVPend(r)
    \/ \E r \in Slots : PesoVFinal(r)
    \/ \E r \in Slots : PesoVFalla(r)

SpecKey == InitKey /\ [][NextKey]_vars

\* The routes that open a transaction, and programar which creates the lines to weigh,
\* one request at a time.
KeyPtNuevo(r) == NadieEnCurso /\ ArrivePtNuevo(r)
KeyPtEditar(r) == NadieEnCurso /\ ArrivePtEditar(r)

NextTx ==
    \/ \E r \in Slots : Release(r)
    \/ \E r \in Slots : AwaitPool(r)
    \/ ConnectOk
    \/ ConnectFail
    \/ \E r \in Slots : KeyPeso(r)
    \/ \E r \in Slots : KeyProgramar(r)
    \/ \E r \in Slots : KeyPtNuevo(r)
    \/ \E r \in Slots : KeyPtEditar(r)
    \/ \E r \in Slots : PesoInicio(r)
    \/ \E r \in Slots : PesoPend(r)
    \/ \E r \in Slots : PesoFinal(r)
    \/ \E r \in Slots : PesoNext(r)
    \/ \E r \in Slots : PesoCommit(r)
    \/ \E r \in Slots : PesoFalla(r)
    \/ \E r \in Slots : PesoVInicio(r)
    \/ \E r \in Slots : PesoVPend(r)
    \/ \E r \in Slots : PesoVFinal(r)
    \/ \E r \in Slots : PesoVFalla(r)
    \/ \E r \in Slots : PtCabecera(r)
    \/ \E r \in Slots : PtActualiza(r)
    \/ \E r \in Slots : PtBorra(r)
    \/ \E r \in Slots : PtDetalle(r)
    \/ \E r \in Slots : PtCommit(r)
    \/ \E r \in Slots : PtFalla(r)

SpecTx == InitKey /\ [][NextTx]_vars

\* ------------------------------------------------ getPool, promise by promise
\* getPool with the identity of each promise of sql.connect and the order in which the
\* continuations run made explicit.  poolPromise holds the position of the cached
\* promise in promesas.  A caller is any handler: each calls getPool once, first thing
\* after its validation.

\* Requests and driver events served while continuations are still queued.
C25_Mutant_ColaVacia == TRUE

\* A request is received, or the driver settles a connect, only when the microtask queue
\* has drained.
ColaVacia == micro = <<>>

\* A handler calls getPool and runs it up to `return null` or `await poolPromise`.
CallGetPool(c) ==
    /\ ColaVacia
    /\ llamadas[c].pc = "idle"
    /\ IF poolPromise = NULL
       THEN IF ~configured
            THEN /\ llamadas' = [llamadas EXCEPT ![c] = [pc |-> "vuelve", p |-> 0, pool |-> FALSE]]
                 /\ micro' = Append(micro, c)
                 /\ UNCHANGED <<poolPromise, promesas>>
            ELSE /\ Len(promesas) < MaxIntentos
                 /\ promesas' = Append(promesas, [estado |-> "pending", reacciones |-> <<c>>])
                 /\ poolPromise' = Len(promesas) + 1
                 /\ llamadas' = [llamadas EXCEPT ![c] =
                                   [pc |-> "await", p |-> Len(promesas) + 1, pool |-> FALSE]]
                 /\ UNCHANGED micro
       ELSE /\ llamadas' = [llamadas EXCEPT ![c] =
                              [pc |-> "await", p |-> poolPromise, pool |-> FALSE]]
            /\ IF promesas[poolPromise].estado = "pending"
               THEN /\ promesas' = [promesas EXCEPT ![poolPromise].reacciones = Append(@, c)]
                    /\ UNCHANGED micro
               ELSE /\ micro' = Append(micro, c)
                    /\ UNCHANGED promesas
            /\ UNCHANGED poolPromise
    /\ UNCHANGED <<deployed, configured, apiKey, connect, now, store, req>>

\* The connect of promise p succeeds: the continuations of its awaits are queued in the
\* order the awaits were made.
ConnectResolves(p) ==
    /\ ColaVacia
    /\ p \in 1..Len(promesas)
    /\ promesas[p].estado = "pending"
    /\ promesas' = [promesas EXCEPT ![p] = [estado |-> "resolved", reacciones |-> <<>>]]
    /\ micro' = promesas[p].reacciones
    /\ UNCHANGED <<deployed, configured, apiKey, poolVars, now, store, req, llamadas>>

\* The connect of promise p fails.
ConnectRejects(p) ==
    /\ ColaVacia
    /\ p \in 1..Len(promesas)
    /\ promesas[p].estado = "pending"
    /\ promesas' = [promesas EXCEPT ![p] = [estado |-> "rejected", reacciones |-> <<>>]]
    /\ micro' = promesas[p].reacciones
    /\ UNCHANGED <<deployed, configured, apiKey, poolVars, now, store, req, llamadas>>

\* The first queued continuation of an `await poolPromise` runs: getPool returns the
\* pool, or its catch clears poolPromise and returns null; the return queues the
\* continuation of the handler's `await getPool()`.
ResumeAwait ==
    /\ micro # <<>>
    /\ LET c == Head(micro) IN
       /\ llamadas[c].pc = "await"
       /\ IF promesas[llamadas[c].p].estado = "resolved"
          THEN /\ llamadas' = [llamadas EXCEPT ![c].pc = "vuelve", ![c].pool = TRUE]
               /\ UNCHANGED poolPromise
          ELSE /\ llamadas' = [llamadas EXCEPT ![c].pc = "vuelve", ![c].pool = FALSE]
               /\ poolPromise' = NULL
       /\ micro' = Append(Tail(micro), c)
    /\ UNCHANGED <<deployed, configured, apiKey, connect, now, store, req, promesas>>

\* The first queued continuation of an `await getPool()` runs: the handler has its
\* answer and goes on without calling getPool again.
ResumeHandler ==
    /\ micro # <<>>
    /\ LET c == Head(micro) IN
       /\ llamadas[c].pc = "vuelve"
       /\ llamadas' = [llamadas EXCEPT ![c].pc = "done"]
    /\ micro' = Tail(micro)
    /\ UNCHANGED <<deployed, configured, apiKey, poolVars, now, store, req, promesas>>

\* The handler has returned.
CallerLeaves(c) ==
    /\ llamadas[c].pc = "done"
    /\ llamadas' = [llamadas EXCEPT ![c] = NoLlamada]
    /\ UNCHANGED <<deployed, configured, apiKey, poolVars, now, store, req, promesas, micro>>

NextPool ==
    \/ \E c \in 1..MaxLlamadas : CallGetPool(c)
    \/ \E p \in 1..MaxIntentos : ConnectResolves(p)
    \/ \E p \in 1..MaxIntentos : ConnectRejects(p)
    \/ ResumeAwait
    \/ ResumeHandler
    \/ \E c \in 1..MaxLlamadas : CallerLeaves(c)

SpecPool == Init /\ [][NextPool]_vars

\* ============================================================= claims
\* A weighing request that has run its UPDATE and has not answered yet.
PesoEnCurso(r, b) ==
    /\ req[r].kind = "peso"
    /\ req[r].pc \in {"inicio", "pend", "final", "next", "commit"}
    /\ req[r].in.Consecutivo = b

\* Lines of batch b whose weigh timestamp is null in the committed store d.
SinPesar(d, b) == { s \in 1..Len(d[b]) : d[b][s].TiempoDePesado = NULL }

\* Request r answers in this step.
Responde(r) == req[r].pc # "done" /\ req'[r].pc = "done"

\* Field f is absent from body in.
Ausente(in, f) == IF f \in CamposTexto THEN in[f] = UNDEF ELSE in[f] = ABSENT

\* C1: POST /peso is atomic: once no weighing request of a batch is under way, the
\* committed store never holds the line of Secuencia 1 with a weigh timestamp while the
\* batch's ProduccionInicio is still null (a weigh-in persists with what it entails or
\* not at all).
C1_PesadaAtomica ==
    \A b \in Batches :
        (\A r \in Slots : ~PesoEnCurso(r, b))
        => (det[b][1].TiempoDePesado # NULL => ctrl[b].ProduccionInicio # NULL)

\* C2: in every committed state of the consolidated server, LoteCompletado of a batch is
\* true if and only if none of its lines has a null weigh timestamp.
C2_CompletadoSiiSinPendientes ==
    deployed = "server.js"
    => \A b \in Batches : ctrl[b].LoteCompletado <=> SinPesar(det, b) = {}

\* C3: ProduccionInicio, once non-null, is never changed by any step; a step that sets
\* it belongs to a POST /peso of Secuencia 1 of that batch; and when a POST /peso of
\* Secuencia 1 answers 201 from the store, ProduccionInicio of its batch is set.
C3_InicioUnaVez ==
    [][ /\ \A b \in Batches :
             /\ ctrl[b].ProduccionInicio # NULL
                => ctrl'[b].ProduccionInicio = ctrl[b].ProduccionInicio
             /\ ctrl[b].ProduccionInicio = NULL /\ ctrl'[b].ProduccionInicio # NULL
                => \E r \in Slots : /\ req[r].kind = "peso"
                                    /\ req[r].pc \in {"inicio", "commit"}
                                    /\ req[r].in.Secuencia = 1
                                    /\ req[r].in.Consecutivo = b
                                    /\ req'[r] # req[r]
        /\ \A r \in Slots :
             ( /\ Responde(r)
               /\ req'[r].kind = "peso" /\ req'[r].pool
               /\ req'[r].resp.status = 201
               /\ req'[r].in.Secuencia = 1 )
             => ctrl'[req'[r].in.Consecutivo].ProduccionInicio # NULL
      ]_vars

\* A second weigh of Secuencia 1 has answered 201 at a later time than the production
\* start, which is still the first one.
C3_Witness ==
    \E r \in Slots :
        /\ req[r].pc = "done" /\ req[r].kind = "peso" /\ req[r].pool
        /\ req[r].resp.status = 201
        /\ req[r].in.Secuencia = 1
        /\ ctrl[req[r].in.Consecutivo].ProduccionInicio # NULL
        /\ det[req[r].in.Consecutivo][1].TiempoDePesado
             > ctrl[req[r].in.Consecutivo].ProduccionInicio

\* C4: a line is immutable once its weigh timestamp is set: no step of the consolidated
\* server changes the tare, weight, weigh timestamp, label or photo of a committed line
\* that has a timestamp.
C4_LineaInmutable ==
    [][ deployed = "server.js"
        => \A b \in Batches : \A s \in Secuencias(b) :
               det[b][s].TiempoDePesado # NULL => det'[b][s] = det[b][s] ]_vars

\* C5: a POST /peso whose UPDATE matches no line answers 404 (or 500 when the statement
\* throws), holds no transaction afterwards, and leaves every row of the store as it
\* was; a 404 is answered only when no line matches.
C5_NoEncontradoSinEfecto ==
    [][ \A r \in Slots :
            ( /\ Responde(r)
              /\ req'[r].kind = "peso" /\ req'[r].pool
              /\ req[r].pc \in {"idle", "await"} )
            => /\ Coincide(req'[r].in) = {}
                  => /\ req'[r].resp.status \in {404, 500}
                     /\ ~req'[r].tx.open
                     /\ store' = store
               /\ req'[r].resp.status = 404 => Coincide(req'[r].in) = {}
      ]_vars

\* A POST /peso of Secuencia 1 for an existing batch was answered 404 and the batch has
\* still not started.
C5_Witness ==
    \E r \in Slots :
        /\ req[r].pc = "done" /\ req[r].kind = "peso"
        /\ req[r].resp.status = 404
        /\ req[r].in.Secuencia = 1
        /\ req[r].in.Consecutivo \in Batches
        /\ ctrl[req[r].in.Consecutivo].ProduccionInicio = NULL
        /\ det[req[r].in.Consecutivo][1].TiempoDePesado = NULL

\* C6: every POST /peso that commits the weigh-in of a line that had no weigh timestamp
\* reports completed = false exactly when another line of the batch still has a null
\* weigh timestamp after the update, and remaining = the number of those lines.
C6_RespuestaPendientes ==
    [][ \A r \in Slots :
            ( /\ req[r].kind = "peso" /\ req[r].pc = "commit"
              /\ Responde(r)
              /\ req'[r].resp.status = 201
              /\ det[req[r].in.Consecutivo][req[r].in.Secuencia].TiempoDePesado = NULL )
            => LET n == Cardinality(SinPesar(det', req[r].in.Consecutivo)
                                    \ {req[r].in.Secuencia})
               IN /\ req'[r].resp.remaining = n
                  /\ req'[r].resp.completed = FALSE <=> n > 0
      ]_vars

\* C7: a POST /peso whose transaction overlapped no other weigh-in of the batch reports,
\* when it commits, completed = true, remaining = 0 and next = null, with LoteCompletado
\* and ProduccionFinal set, exactly when it leaves no line pending; otherwise it reports
\* completed = false and the number of lines left.
C7_PesadasEnSecuencia ==
    [][ \A r \in Slots :
            ( /\ req[r].kind = "peso" /\ req[r].pc = "commit"
              /\ Responde(r)
              /\ req'[r].resp.status = 201
              /\ req[r].tx.solo )
            => LET b == req[r].in.Consecutivo
                   n == Cardinality(SinPesar(det', b))
               IN IF n = 0
                  THEN /\ req'[r].resp.completed
                       /\ req'[r].resp.remaining = 0
                       /\ req'[r].resp.next = NULL
                       /\ ctrl'[b].LoteCompletado
                       /\ ctrl'[b].ProduccionFinal # NULL
                  ELSE /\ ~req'[r].resp.completed
                       /\ req'[r].resp.remaining = n
                       /\ ~ctrl'[b].LoteCompletado
      ]_vars

\* The last of the weigh-ins of a batch, made one after the other, has answered
\* completed = true.
C7_Witness ==
    \E r \in Slots :
        /\ req[r].pc = "done" /\ req[r].kind = "peso" /\ req[r].tx.solo
        /\ req[r].resp.status = 201 /\ req[r].resp.completed
        /\ req[r].resp.remaining = 0 /\ req[r].resp.next = NULL
        /\ SinPesar(det, req[r].in.Consecutivo) = {}
        /\ ctrl[req[r].in.Consecutivo].LoteCompletado
        /\ ctrl[req[r].in.Consecutivo].ProduccionFinal # NULL

\* C8: a canceled batch is in no pending listing: GET /lotesprogramados answered from the
\* store lists no canceled batch, and GET /lotesprogramados/detallelote answered from
\* the store returns no line of a canceled batch as the pending detail.
C8_CanceladoNoListado ==
    \A r \in Slots :
        (req[r].pc = "done" /\ req[r].pool /\ req[r].resp.status = 200)
        => /\ req[r].kind = "lotes" => \A b \in req[r].resp.lista : ~prog[b].Cancelado
           /\ req[r].kind = "detalle" /\ req[r].resp.detalle # NULL
              => ~prog[req[r].in.Consecutivo].Cancelado

\* C9: a POST /peso that reaches the store for a batch already canceled is refused in
\* that step: it answers without a 201, opens no transaction and leaves the store as
\* it was.
C9_CanceladoNoSePesa ==
    [][ \A r \in Slots :
            ( /\ req[r].pc \in {"idle", "await"}
              /\ req'[r].pc \notin {"idle", "await"}
              /\ req'[r].kind = "peso" /\ req'[r].pool
              /\ req'[r].in.Consecutivo \in Batches
              /\ prog[req'[r].in.Consecutivo].Cancelado )
            => /\ req'[r].pc = "done"
               /\ req'[r].resp.status # 201
               /\ store' = store
      ]_vars

\* C10: a POST /peso without one of the six required fields is answered 400 in the step
\* it arrives, before getPool is called: the pool state and the store are as before and
\* no transaction exists.
C10_ValidaAntesDeGetPool ==
    [][ \A r \in Slots :
            ( /\ req[r].pc = "idle" /\ req'[r].pc # "idle"
              /\ req'[r].kind = "peso"
              /\ \E f \in PesoRequeridos : Ausente(req'[r].in, f) )
            => /\ req'[r].pc = "done"
               /\ req'[r].resp.status = 400
               /\ ~req'[r].calledGetPool
               /\ ~req'[r].tx.open
               /\ poolVars' = poolVars
               /\ store' = store
      ]_vars

\* With credentials configured and no connect attempt made, a POST /peso without Tara
\* only was answered 400 and getPool was not called.
C10_Witness ==
    \E r \in Slots :
        /\ req[r].pc = "done" /\ req[r].kind = "peso"
        /\ req[r].resp.status = 400
        /\ req[r].in.Tara = ABSENT
        /\ \A f \in PesoRequeridos \ {"Tara"} : ~Ausente(req[r].in, f)
        /\ ~req[r].calledGetPool
        /\ configured /\ poolPromise = NULL /\ connect = "none"

\* A request that passed the key check and is being handled or was just answered.
Admitida(r) == req[r].pc # "idle" /\ ~(req[r].pc = "done" /\ req[r].resp.status = 401)

\* C11: a POST or PUT whose body lacks a required field is answered 400 and changes
\* nothing; stated for the ingredient endpoints, whose required fields are Nombre,
\* CategoriaId and Activo: such a request is never past its validation (it is answered,
\* with 400) and the step that receives it leaves the store as it was.
C11_SinCampoRequerido400 ==
    \A r \in Slots :
        ( /\ req[r].kind \in {"ingnuevo", "ingactualizar"}
          /\ Admitida(r)
          /\ \E f \in IngRequeridos : Ausente(req[r].in, f) )
        => req[r].pc = "done" /\ req[r].resp.status = 400

\* C12: with credentials configured, a request to GET /api/Clientes/activos whose
\* connection attempt failed (getPool answered without a pool) is answered 500, and no
\* answer of the route carries the mock list.
C12_FalloDeConexion500 ==
    \A r \in Slots :
        ( /\ configured
          /\ req[r].kind = "clientes"
          /\ req[r].pc = "done"
          /\ req[r].calledGetPool )
        => /\ ~req[r].pool => req[r].resp.status = 500
           /\ req[r].resp.lista # ClientesMock

\* Request r calls getPool in this step.
LlamaGetPool(r) == ~req[r].calledGetPool /\ req'[r].calledGetPool

\* C13: when server, database, user or password is missing, every call of getPool
\* answers null at once: sql.connect is never called (no promise is cached, none is
\* pending or settled), the caller goes on without a pool and without waiting, and it
\* is not answered 500.
C13_SinCredencialesNull ==
    ~configured
    => /\ poolPromise = NULL
       /\ connect = "none"
       /\ \A r \in Slots :
            req[r].calledGetPool => /\ ~req[r].pool
                                    /\ req[r].pc = "done"
                                    /\ req[r].resp.status \in {200, 201}

\* Without credentials a request that called getPool was answered from mock mode.
C13_Witness ==
    /\ ~configured
    /\ \E r \in Slots : /\ req[r].calledGetPool
                         /\ req[r].kind = "ingnuevo"
                         /\ req[r].resp.status = 201

\* C14: once sql.connect has succeeded the promise stays cached and resolved, and every
\* later call of getPool answers with the pool at once; once a connect attempt has
\* failed the cache is cleared before the next call, and that call calls sql.connect
\* again.
C14_PoolUnaVez ==
    [][ /\ connect = "resolved"
           => /\ connect' = "resolved"
              /\ poolPromise' = PROMISE
              /\ \A r \in Slots : LlamaGetPool(r) => req'[r].pool /\ req'[r].pc # "await"
        /\ connect = "rejected"
           => /\ Quiet => poolPromise = NULL
              /\ \A r \in Slots : LlamaGetPool(r) => /\ connect' = "pending"
                                                     /\ poolPromise' = PROMISE
                                                     /\ req'[r].pc = "await"
      ]_vars

\* Three requests used the store: two ingredients are stored and an update has just
\* been answered from the pool, so one of them called getPool after the connect succeeded.
C14_Witness ==
    /\ connect = "resolved"
    /\ Len(ingredientes) = MaxIng
    /\ \E r \in Slots : /\ req[r].kind = "ingactualizar"
                         /\ req[r].pc = "done"
                         /\ req[r].pool
                         /\ req[r].resp.status = 200

\* C15: with API_KEY set, a request whose x-api-key header is missing or different is
\* answered 401 in the step it arrives, without a call of getPool, without a transaction
\* and with the store and the pool cache untouched; a request is answered 401 only in
\* that case, so without API_KEY none is.
C15_LlaveAntesDeRuta ==
    [][ \A r \in Slots :
          /\ ( /\ req'[r].pc # "idle"
               /\ apiKey # NOKEY
               /\ req'[r].xApiKey # apiKey )
             => /\ req'[r].pc = "done"
                /\ req'[r].resp.status = 401
                /\ ~req'[r].calledGetPool
                /\ ~req'[r].tx.open
                /\ Responde(r) => UNCHANGED <<store, poolVars>>
          /\ ( req'[r].pc = "done" /\ req'[r].resp.status = 401 )
             => apiKey # NOKEY /\ req'[r].xApiKey # apiKey
      ]_vars

\* With API_KEY set and a batch in the store, a POST /peso without the header has been
\* answered 401.
C15_Witness ==
    /\ apiKey = KEY
    /\ Len(prog) > 0
    /\ \E r \in Slots : /\ req[r].kind = "peso"
                         /\ req[r].pc = "done"
                         /\ req[r].xApiKey = UNDEF
                         /\ req[r].resp.status = 401

\* The body names a unit of measure.
ConUnidad(in) == in.UnidadMedidaId # ABSENT \/ in.IdUnidadMedida # ABSENT

\* C16: in server.js, for a POST /lotesprogramados/programar that names a unit of
\* measure and reaches the store: the scheduling procedure creates batches only when
\* the unit is an active row of UnidadesDeMedida; when it is not, the request is
\* answered 400 (500 if the lookup throws) and the tables of the lots stay as they were.
C16_UnidadActivaAntesDelSP ==
    [][ deployed = "server.js"
        => \A r \in Slots :
             ( /\ Responde(r)
               /\ req'[r].kind = "programar"
               /\ req'[r].pool
               /\ ConUnidad(req'[r].in) )
             => /\ lotes' # lotes => UnidadId(req'[r].in) \in UnidadesActivas
                /\ UnidadId(req'[r].in) \notin UnidadesActivas
                   => /\ req'[r].resp.status \in {400, 500}
                      /\ lotes' = lotes
      ]_vars

\* server.js has answered 400 from the store to a request naming the inactive unit 2.
C16_Witness ==
    /\ deployed = "server.js"
    /\ \E r \in Slots : /\ req[r].kind = "programar"
                         /\ req[r].pc = "done"
                         /\ req[r].pool
                         /\ req[r].in.UnidadMedidaId = 2
                         /\ req[r].resp.status = 400

\* C17: the unit of measure is optional: a POST /lotesprogramados/programar with the
\* five required fields and neither UnidadMedidaId nor IdUnidadMedida is accepted,
\* that is, it is not answered 400.
C17_UnidadOpcional ==
    \A r \in Slots :
        ( /\ req[r].kind = "programar"
          /\ req[r].pc = "done"
          /\ req[r].resp.status # 401
          /\ ~FaltaProgramar(req[r].in)
          /\ ~ConUnidad(req[r].in) )
        => req[r].resp.status # 400

\* The list l of Clave values as detail rows of product c, numbered from 1 in the order
\* of the list.
RecetaNumerada(c, l) ==
    [i \in 1..Len(l) |-> [CodigoProducto |-> c, NumIngrediente |-> i, Ingrediente |-> l[i]]]

\* The detail rows of product c in a table.
DetallesDe(tabla, c) == SelectSeq(tabla, LAMBDA x : x.CodigoProducto = c)

\* C18: the step in which a POST /api/ProductosTerminados/nuevo with N ingredients is
\* answered 201 from the store adds exactly one header row, with the body's code, and
\* the N detail rows numbered 1..N in the order of the body; the step in which it is
\* answered anything else changes neither table; and both tables change in no step but
\* the one that answers a registration or an edit with success.
C18_NuevoTodoONada ==
    [][ /\ \A r \in Slots :
             ( Responde(r) /\ req'[r].kind = "ptnuevo" )
             => IF req'[r].pool /\ req'[r].resp.status = 201
                THEN /\ ptCab' = Append(ptCab, [CodigoProducto |-> req'[r].in.Codigo,
                                                Descripcion |-> req'[r].in.Descripcion,
                                                Activo |-> 1])
                     /\ ptDet' = ptDet \o RecetaNumerada(req'[r].in.Codigo,
                                                         req'[r].in.Ingredientes)
                ELSE ptCab' = ptCab /\ ptDet' = ptDet
        /\ ( ptCab' # ptCab \/ ptDet' # ptDet )
           => \E r \in Slots : /\ Responde(r)
                                /\ req'[r].kind \in {"ptnuevo", "pteditar"}
                                /\ req'[r].resp.status \in {200, 201}
      ]_vars

\* A registration with two ingredients has been answered 201 from the store and its
\* rows are the last ones of the tables.
C18_Witness ==
    \E r \in Slots :
        /\ req[r].kind = "ptnuevo" /\ req[r].pc = "done" /\ req[r].pool
        /\ req[r].resp.status = 201
        /\ req[r].in.Ingredientes = <<"6", "5">>
        /\ Len(ptCab) = MaxProductos
        /\ Len(ptDet) = MaxDetalles

Consulta(r) == ~req[r].pool /\ req'[r].pool

\* Ids of the stored ingredients named n.
Llamados(n) == { i \in 1..Len(ingredientes) : ingredientes[i].Ingrediente = n }

\* C20: a creation whose name is stored when its duplicate query runs is answered 409
\* (500 if the query throws) and inserts nothing; an update of id X to a name stored
\* under another id is answered 409 (or 500) and changes nothing; an update of X to the
\* name X has, no other id having it, passes the duplicate query and is then answered
\* 200 (500 if the UPDATE throws); and no step that answers 409 changes the table.
C20_NombreDuplicado409 ==
    [][ \A r \in Slots :
          /\ ( Consulta(r) /\ req'[r].kind = "ingnuevo" /\ Llamados(req'[r].in.Nombre) # {} )
             => /\ req'[r].pc = "done"
                /\ req'[r].resp.status \in {409, 500}
                /\ ingredientes' = ingredientes
          /\ ( Consulta(r) /\ req'[r].kind = "ingactualizar"
                /\ Llamados(req'[r].in.Nombre) \ {req'[r].in.id} # {} )
             => /\ req'[r].pc = "done"
                /\ req'[r].resp.status \in {409, 500}
                /\ ingredientes' = ingredientes
          /\ ( Consulta(r) /\ req'[r].kind = "ingactualizar"
                /\ Llamados(req'[r].in.Nombre) = {req'[r].in.id} )
             => \/ req'[r].pc = "update"
                \/ req'[r].pc = "done" /\ req'[r].resp.status = 500
          /\ ( Responde(r) /\ req[r].pc = "update" )
             => req'[r].resp.status \in {200, 500}
          /\ ( Responde(r) /\ req'[r].resp.status = 409 )
             => ingredientes' = ingredientes
      ]_vars

\* With two ingredients stored, an update of one of them to the name it has is past the
\* duplicate query.
C20_Witness ==
    /\ Len(ingredientes) = MaxIng
    /\ \E r \in Slots :
          /\ req[r].kind = "ingactualizar" /\ req[r].pc = "update"
          /\ req[r].in.id \in 1..Len(ingredientes)
          /\ ingredientes[req[r].in.id].Ingrediente = req[r].in.Nombre
          /\ \E i \in 1..Len(ingredientes) : ingredientes[i].Ingrediente # req[r].in.Nombre

\* A step of one of the three cancel routes.
PasoDeCancelar ==
    \E r \in Slots : req'[r] # req[r] /\ req'[r].kind \in {"eliminar", "delete", "rango"}

\* C21: cancellation is logical only: no step removes a row of ProgramacionProduccion,
\* of its control table or of its detail table, and no step takes Cancelado back from 1
\* to 0; a step of POST /lotesprogramados/eliminar, DELETE /lotesprogramados/:consecutivo
\* or POST /lotesprogramados/eliminar-rango changes nothing but Cancelado, from 0 to 1.
C21_CancelacionLogica ==
    [][ /\ Len(prog') >= Len(prog) /\ Len(ctrl') >= Len(ctrl) /\ Len(det') >= Len(det)
        /\ \A b \in Batches : /\ Len(det'[b]) = Len(det[b])
                              /\ prog[b].Cancelado => prog'[b].Cancelado
        /\ PasoDeCancelar
           => /\ ctrl' = ctrl /\ det' = det /\ catalogo' = catalogo
              /\ Len(prog') = Len(prog)
              /\ \A b \in Batches :
                    prog'[b] \in {prog[b], [prog[b] EXCEPT !.Cancelado = TRUE]}
      ]_vars

\* A cancel request was answered 200 from the store for a batch whose weighing had
\* started: the batch is canceled and its rows, the weighed line included, are there.
C21_Witness ==
    \E r \in Slots :
        /\ req[r].pc = "done" /\ req[r].kind \in {"eliminar", "delete"} /\ req[r].pool
        /\ req[r].resp.status = 200
        /\ \E b \in Batches :
              /\ b = req[r].in.Consecutivo \/ b \in req[r].in.consecutivos
              /\ prog[b].Cancelado
              /\ Len(det[b]) = MaxLineas
              /\ det[b][1].TiempoDePesado # NULL
              /\ ctrl[b].ProduccionInicio # NULL

\* C22: GET /health never fails: whatever API_KEY, the credentials and the state of the
\* connect attempt are, it is answered 200 with dbConnected true exactly when getPool
\* returned a pool.
C22_HealthNuncaFalla ==
    \A r \in Slots :
        (req[r].kind = "health" /\ req[r].pc = "done")
        => /\ req[r].resp.status = 200
           /\ req[r].resp.dbConnected = req[r].pool

\* C22 as amended: GET /health is answered 401 exactly when API_KEY is set and the
\* x-api-key header differs from it; every other GET /health is answered 200 with
\* dbConnected true exactly when getPool returned a pool, which is exactly when the
\* connect attempt has succeeded, whether the credentials are absent, the attempt failed
\* or the pool is connected.
C22_HealthAdmitidaNuncaFalla ==
    \A r \in Slots :
        (req[r].kind = "health" /\ req[r].pc = "done")
        => IF NoAutorizado(req[r].xApiKey)
           THEN req[r].resp.status = 401
           ELSE /\ req[r].resp.status = 200
                /\ req[r].resp.dbConnected = req[r].pool
                /\ req[r].pool <=> connect = "resolved"

\* With API_KEY set and sent, and the credentials configured, GET /health was answered
\* 200 with dbConnected false after the connect attempt failed.
C22_Witness ==
    \E r \in Slots :
        /\ req[r].kind = "health" /\ req[r].pc = "done"
        /\ apiKey = KEY /\ req[r].xApiKey = KEY
        /\ configured /\ connect = "rejected"
        /\ req[r].resp.status = 200 /\ ~req[r].resp.dbConnected

\* C23: two concurrent POST /peso for the last two pending lines of a batch can both
\* commit after each counted a pending line, leaving the batch with no pending line and
\* LoteCompletado false, neither response reporting completed = true (the state of
\* C23_Witness).  As a step property: a commit that leaves no pending line and
\* LoteCompletado false belongs to a request that overlapped another weigh-in of the
\* batch, counted at least one pending line and reports completed = false; a response
\* with completed = true comes with LoteCompletado set, and LoteCompletado is never
\* reset, so while it is false no response of the batch has reported completion.
C23_CarreraSinCompletar ==
    [][ /\ \A r \in Slots :
             ( /\ req[r].kind = "peso" /\ req[r].pc = "commit"
               /\ Responde(r)
               /\ req'[r].resp.status = 201 )
             => LET b == req[r].in.Consecutivo IN
                /\ (SinPesar(det', b) = {} /\ ~ctrl'[b].LoteCompletado)
                   => /\ ~req[r].tx.solo
                      /\ req'[r].resp.remaining > 0
                      /\ ~req'[r].resp.completed
                /\ req'[r].resp.completed => ctrl'[b].LoteCompletado
        /\ \A b \in Batches : ctrl[b].LoteCompletado => ctrl'[b].LoteCompletado
      ]_vars

\* The second of two overlapping weigh-ins of the last two pending lines has committed
\* and answered completed = false with remaining = 1: every line of the batch has its
\* weigh timestamp, and LoteCompletado is false.
C23_Witness ==
    \E r \in Slots :
        /\ deployed = "server.js"
        /\ req[r].pc = "done" /\ req[r].kind = "peso" /\ req[r].pool
        /\ req[r].resp.status = 201
        /\ ~req[r].tx.solo
        /\ req[r].resp.remaining = 1 /\ ~req[r].resp.completed
        /\ LET b == req[r].in.Consecutivo IN
           /\ Len(det[b]) = 2
           /\ SinPesar(det, b) = {}
           /\ ~ctrl[b].LoteCompletado /\ ctrl[b].ProduccionFinal = NULL

\* The lowest Secuencia among the lines of batch b, other than line s, that have a null
\* weigh timestamp in table d; NULL when there is none.
MenorPendiente(d, b, s) ==
    LET P == SinPesar(d, b) \ {s} IN
    IF P = {} THEN NULL ELSE CHOOSE x \in P : \A y \in P : x <= y

C25_UnIntentoCompartido ==
    [][ /\ \A c \in 1..MaxLlamadas :
             (llamadas[c].pc = "idle" /\ llamadas'[c].pc # "idle" /\ poolPromise # NULL)
             => /\ promesas[poolPromise].estado # "rejected"
                /\ llamadas'[c].pc = "await"
                /\ llamadas'[c].p = poolPromise
                /\ poolPromise' = poolPromise
                /\ Len(promesas') = Len(promesas)
        /\ Len(promesas') # Len(promesas)
           => /\ Len(promesas') = Len(promesas) + 1
              /\ poolPromise = NULL /\ poolPromise' = Len(promesas')
              /\ \A p \in 1..Len(promesas) : promesas[p].estado = "rejected"
        /\ (poolPromise # NULL /\ poolPromise' # poolPromise)
           => /\ poolPromise' = NULL
              /\ promesas[poolPromise].estado = "rejected"
              /\ micro # <<>> /\ llamadas[Head(micro)].p = poolPromise
      ]_vars

\* Two callers awaited the first attempt together and both got null when it failed; the
\* second attempt, started by a later caller, is the cached promise.
C25_Witness ==
    /\ Len(promesas) = 2
    /\ promesas[1].estado = "rejected"
    /\ promesas[2].estado \in {"pending", "resolved"}
    /\ poolPromise = 2
    /\ \E a, b, c \in 1..MaxLlamadas :
          /\ a # b
          /\ llamadas[a].p = 1 /\ llamadas[a].pc = "done" /\ ~llamadas[a].pool
          /\ llamadas[b].p = 1 /\ llamadas[b].pc = "done" /\ ~llamadas[b].pool
          /\ llamadas[c].p = 2

\* C26: ingredient names stay unique under any interleaving of creations and updates:
\* no reachable state holds two rows of Ingredientes with the same name.
C26_NombresUnicos ==
    \A i, j \in Identificadores :
        (i # j /\ ingredientes[i].Ingrediente # SNULL)
        => ingredientes[i].Ingrediente # ingredientes[j].Ingrediente

\* C27: completion is monotonic: no step takes the weigh timestamp of a committed line
\* back to null or adds a line to a batch, so the number of pending lines of a batch
\* never increases; and no step takes LoteCompletado of a batch from true to false.
C27_CompletadoMonotono ==
    [][ \A b \in Batches :
            /\ Len(det'[b]) = Len(det[b])
            /\ \A s \in Secuencias(b) :
                  det[b][s].TiempoDePesado # NULL => det'[b][s].TiempoDePesado # NULL
            /\ Cardinality(SinPesar(det', b)) <= Cardinality(SinPesar(det, b))
            /\ ctrl[b].LoteCompletado => ctrl'[b].LoteCompletado
      ]_vars

\* A completed batch was canceled with an answer from the store: every line still has
\* its timestamp and LoteCompletado is still true.
C27_Witness ==
    \E r \in Slots :
        /\ req[r].pc = "done" /\ req[r].pool
        /\ req[r].kind \in {"eliminar", "delete"} /\ req[r].resp.status = 200
        /\ \E b \in Batches :
              /\ b = req[r].in.Consecutivo \/ b \in req[r].in.consecutivos
              /\ prog[b].Cancelado
              /\ ctrl[b].LoteCompletado
              /\ SinPesar(det, b) = {}

\* ---------------------------------------------------------------- C28
\* The handlers that open a sql.Transaction.
ConTransaccion == {"peso", "ptnuevo", "pteditar"}

C29_CompletadoSiiCero ==
    \A r \in Slots :
        (/\ deployed = "server.js"
         /\ req[r].pc = "done"
         /\ req[r].kind = "peso"
         /\ req[r].resp.status = 201)
            => /\ req[r].resp.completed = (req[r].resp.remaining = 0)
               /\ req[r].resp.completed => req[r].resp.next = NULL


\* ---------------------------------------------------------------- C30
\* The request of POST /lotesprogramados/eliminar-rango that takes this step.
PasoDeRango(r) == req'[r] # req[r] /\ req'[r].kind = "rango"

\* Batch b is one the route may cancel for the range [i, f]: scheduled within the range,
\* not completed, production not started, not canceled.
Cancelable(b, i, f) ==
    /\ i # ABSENT /\ f # ABSENT
    /\ i <= ctrl[b].FechaProgramada /\ ctrl[b].FechaProgramada <= f
    /\ ~ctrl[b].LoteCompletado
    /\ ctrl[b].ProduccionInicio = NULL
    /\ ~prog[b].Cancelado

\* C30: a step of POST /lotesprogramados/eliminar-rango changes nothing but Cancelado,
\* from 0 to 1, and only on batches scheduled within the range that are not completed,
\* have a null ProduccionInicio and are not canceled; every other batch is left as it
\* was; the 200 answered from the store cancels every such batch and its `eliminados` is
\* the number of batches the step canceled.
C30_RangoSoloCancelables ==
    [][ \A r \in Slots :
          PasoDeRango(r) =>
            LET i == req'[r].in.inicio
                f == req'[r].in.fin
                nuevos == { b \in Batches : prog'[b].Cancelado /\ ~prog[b].Cancelado }
            IN  /\ ctrl' = ctrl /\ det' = det /\ catalogo' = catalogo
                /\ Len(prog') = Len(prog)
                /\ \A b \in Batches :
                      IF b \in nuevos
                      THEN Cancelable(b, i, f) /\ prog'[b] = [prog[b] EXCEPT !.Cancelado = TRUE]
                      ELSE prog'[b] = prog[b]
                /\ (req'[r].pc = "done" /\ req'[r].resp.status = 200 /\ ~req'[r].resp.mock)
                      => /\ nuevos = { b \in Batches : Cancelable(b, i, f) }
                         /\ req'[r].resp.eliminados = Cardinality(nuevos)
                /\ (req'[r].pc = "done" /\ req'[r].resp.status = 200 /\ req'[r].resp.mock)
                      => req'[r].resp.eliminados = 0
      ]_vars

\* A range request was answered from the store with eliminados = 1: the batch scheduled
\* within its range is canceled, and it had no line weighed.
C30_Witness ==
    \E r \in Slots :
        /\ req[r].pc = "done" /\ req[r].kind = "rango" /\ req[r].pool
        /\ req[r].resp.status = 200
        /\ req[r].resp.eliminados = 1
        /\ \E b \in Batches :
              /\ prog[b].Cancelado
              /\ req[r].in.inicio <= ctrl[b].FechaProgramada
              /\ ctrl[b].FechaProgramada <= req[r].in.fin
              /\ ctrl[b].ProduccionInicio = NULL

====
